---- MODULE Spec2Model ----
(***************************************************************************)
(* A model of parts of SkyPortal:                                          *)
(*   - the Liverpool Telescope follow-up API (facility_apis/lt.py):        *)
(*     LTAPI.delete, IOOAPI.submit, IOIAPI.submit, SPRATAPI.submit and the *)
(*     RTML payload builders;                                              *)
(*   - the access rules of ObjAnalysis (models/analysis.py);               *)
(*   - the spectrum handlers (handlers/api/spectrum.py);                   *)
(*   - the summary search handler (handlers/api/summary_query.py);         *)
(*   - the annotations API on photometry (tests/api);                      *)
(*   - AnalysisMixin.save_data (models/analysis.py).                       *)
(* Each part has its own specification over the shared variables.          *)
(***************************************************************************)
EXTENDS Integers, Sequences, FiniteSets, TLC

VARIABLES
    \* ---- facility_apis/lt.py ----
    request,        \* the FollowupRequest: status, payload, allocation.altdata, ...
    transactions,   \* request.transactions: the FacilityTransaction rows, in order
    call,           \* the most recent submit/delete call: its inputs and how it ended
    trace,          \* the steps the most recent call executed, in order
    flow,           \* the messages the most recent call pushed through Flow
    lastWrite,      \* the most recent call that assigned request.status
    \* ---- models/analysis.py ----
    obj_readers,    \* the users who can read the Obj of the analyses
    obj_analyses,   \* the obj_analyses table: a set of rows
    next_id,        \* the id the next inserted row gets
    access,         \* the most recent operation on the table and its outcome
    \* ---- handlers/api/spectrum.py ----
    spectra,        \* the spectra table: a set of rows
    spectrum_seq,   \* the id the next inserted spectrum gets
    http,           \* the most recent request to a spectrum handler and its outcome
    \* ---- handlers/api/summary_query.py ----
    sq_config,      \* the module globals: USE_PINECONE, pinecone_client, openai_api_key, ...
    sq_user,        \* the user row the handler finds for the caller
    sq,             \* the request to SummaryQueryHandler.post and its outcome
    \* ---- photometry annotations (tests/api/test_annotations_on_photometry.py) ----
    annotations,    \* the annotations on photometry: a set of rows
    annotation_seq, \* the id the next annotation gets
    annotations_deleted, \* the ids of the annotations that were deleted
    ann_http,       \* the most recent request to the annotations API and its answer
    \* ---- models/analysis.py: AnalysisMixin.save_data ----
    disk_folders,   \* the directories that exist
    disk_files,     \* the files that were written
    analysis_self,  \* the analysis save_data is called on: id, _unique_id, filename
    save_call       \* the most recent call of save_data and how it ended

ltvars == <<request, transactions, call, trace, flow, lastWrite>>

anvars == <<obj_readers, obj_analyses, next_id, access>>

spvars == <<spectra, spectrum_seq, http>>

sqvars == <<sq_config, sq_user, sq>>

phvars == <<annotations, annotation_seq, annotations_deleted, ann_http>>

dkvars == <<disk_folders, disk_files, analysis_self, save_call>>

vars == <<request, transactions, call, trace, flow, lastWrite,
          obj_readers, obj_analyses, next_id, access,
          spectra, spectrum_seq, http,
          sq_config, sq_user, sq,
          annotations, annotation_seq, annotations_deleted, ann_http,
          disk_folders, disk_files, analysis_self, save_call>>

\* The variables of the other parts, which an action of one part leaves alone.
notLT == <<anvars, spvars, sqvars, phvars, dkvars>>

notAnalysis == <<ltvars, spvars, sqvars, phvars, dkvars>>

notSpectrum == <<ltvars, anvars, sqvars, phvars, dkvars>>

notSummary == <<ltvars, anvars, spvars, phvars, dkvars>>

notAnnotations == <<ltvars, anvars, spvars, sqvars, dkvars>>

notDisk == <<ltvars, anvars, spvars, sqvars, phvars>>

(***************************************************************************)
(* Python values                                                           *)
(***************************************************************************)
\* Python's None, kept apart from every string the program handles.
None == "<None>"

\* str(x) / f"{x}" of a value that is a string or None.
str(x) == IF x = None THEN "None" ELSE x

(***************************************************************************)
(* lt.py: module constants                                                 *)
(***************************************************************************)
LT_XML_NS == "http://www.rtml.org/v3.1a"

LT_XSI_NS == "http://www.w3.org/2001/XMLSchema-instance"

LT_SCHEMA_LOCATION == "http://www.rtml.org/v3.1a http://telescope.livjm.ac.uk/rtml/RTML-nightly.xsd"

\* The qualified tag response_rtml.iter() is asked for.
RTML_ERROR_TAG == "{http://www.rtml.org/v3.1a}Error"

(***************************************************************************)
(* XML elements: a tag, its attributes, its text and its children.         *)
(***************************************************************************)
Element(tag, attrs, text, children) ==
    [tag |-> tag, attrs |-> attrs, text |-> text, children |-> children]

NoAttrs == [a \in {} |-> ""]

(***************************************************************************)
(* lt.py: LTRequest, the RTML payload builders                             *)
(***************************************************************************)
\* The date strings a request payload may hold, and what
\* arrow.get(d).format("YYYY-MM-DDTHH:mm:ss") makes of the ones it can parse.
ISODates == {"2026-11-01T20:30:00.250000", "2026-11-08T20:30:00"}

arrow_format(d) ==
    CASE d = "2026-11-01T20:30:00.250000" -> "2026-11-01T20:30:00"
      [] d = "2026-11-08T20:30:00" -> "2026-11-08T20:30:00"

\* LTRequest._build_prolog: the payload outline.
build_prolog(req, timestamp) ==
    Element("RTML",
            [schemaLocation |-> LT_SCHEMA_LOCATION,
             xmlns |-> LT_XML_NS,
             mode |-> "request",
             uid |-> req.obj.id \o "-" \o req.id \o "-" \o timestamp,
             version |-> "3.1a"],
            None, <<>>)

\* LTRequest._build_project: appends the Project element to the payload;
\* altdata["LT_proposalID"] and altdata["username"] raise KeyError when absent.
build_project(payload, req) ==
    LET altdata == req.allocation.altdata
        contact == Element("Contact", NoAttrs, None,
                           << Element("Username", NoAttrs, altdata.username, <<>>),
                              Element("Name", NoAttrs, altdata.username, <<>>) >>)
        project == Element("Project", [ProjectID |-> altdata.LT_proposalID],
                           None, <<contact>>)
    IN  IF {"LT_proposalID", "username"} \subseteq DOMAIN altdata
        THEN [ok |-> TRUE, value |-> [payload EXCEPT !.children = Append(@, project)]]
        ELSE [ok |-> FALSE, value |-> payload]

\* The try block of _build_constraints raises (KeyError, ParserError) when a
\* date is missing or cannot be parsed.
dates_parse(req) ==
    /\ "start_date" \in DOMAIN req.payload
    /\ "end_date" \in DOMAIN req.payload
    /\ req.payload.start_date \in ISODates
    /\ req.payload.end_date \in ISODates

\* LTRequest._build_constraints: the five constraints, or the ValueError.
build_constraints(req) ==
    LET airmass_const == Element("AirmassConstraint",
                                 [maximum |-> req.payload.maximum_airmass], None, <<>>)
        sky_const == Element("SkyConstraint", NoAttrs, None,
                             << Element("Flux", NoAttrs, req.payload.sky_brightness, <<>>),
                                Element("Units", NoAttrs, "magnitudes/square-arcsecond", <<>>) >>)
        seeing_const == Element("SeeingConstraint",
                                [maximum |-> req.payload.maximum_seeing,
                                 units |-> "arcseconds"], None, <<>>)
        clouds == IF "photometric" \in DOMAIN req.payload /\ req.payload.photometric
                  THEN "clear" ELSE "light"
        photom_const == Element("ExtinctionConstraint", NoAttrs, None,
                                << Element("Clouds", NoAttrs, clouds, <<>>) >>)
        start == arrow_format(req.payload.start_date) \o "+00:00"
        end == arrow_format(req.payload.end_date) \o "+00:00"
        date_const == Element("DateTimeConstraint", [type |-> "include"], None,
                              << Element("DateTimeStart", [system |-> "UT", value |-> start], None, <<>>),
                                 Element("DateTimeEnd", [system |-> "UT", value |-> end], None, <<>>) >>)
    IN  IF dates_parse(req)
        THEN [ok |-> TRUE,
              value |-> <<airmass_const, sky_const, seeing_const, photom_const, date_const>>]
        ELSE [ok |-> FALSE, value |-> <<>>]

\* LTRequest._build_target: the Target element (the coordinates are kept as
\* the object's ra/dec strings).
build_target(req) ==
    Element("Target", [name |-> req.obj.id], None,
            << Element("Coordinates", NoAttrs, None,
                       << Element("RightAscension", NoAttrs, req.obj.ra, <<>>),
                          Element("Declination", NoAttrs, req.obj.dec, <<>>),
                          Element("Equinox", NoAttrs, "J2000", <<>>) >>) >>)

\* filt.upper() on the filters the forms offer.
upper(filt) ==
    CASE filt = "u" -> "U" [] filt = "g" -> "G" [] filt = "r" -> "R"
      [] filt = "i" -> "I" [] filt = "z" -> "Z" [] filt = "H" -> "H"

\* The Detector element with its binning.
detector(bin) ==
    Element("Detector", NoAttrs, None,
            << Element("Binning", NoAttrs, None,
                       << Element("X", [units |-> "pixels"], bin, <<>>),
                          Element("Y", [units |-> "pixels"], bin, <<>>) >>) >>)

\* A variant of _build_schedule that passes the filter on as the form gave it
\* and appends the target after the constraints.
build_schedule_filter_as_given(instname, req, filt, exp_time, exp_count) ==
    LET region == IF instname = "IO:O" THEN "optical" ELSE "infrared"
        device == Element("Device", [name |-> instname, type |-> "camera"], None,
                          << Element("SpectralRegion", NoAttrs, region, <<>>),
                             Element("Setup", NoAttrs, None,
                                     << Element("Filter", [type |-> filt], None, <<>>),
                                        detector("2") >>) >>)
        exposure == Element("Exposure", [count |-> exp_count], None,
                            << Element("Value", [units |-> "seconds"], exp_time, <<>>) >>)
        consts == build_constraints(req)
    IN  [ok |-> consts.ok,
         value |-> Element("Schedule", NoAttrs, None,
                           <<device, exposure>> \o consts.value \o <<build_target(req)>>)]

\* IOOIOIRequest._build_schedule: one Schedule for one filter.
build_schedule(instname, req, filt, exp_time, exp_count) ==
    LET region == IF instname = "IO:O" THEN "optical" ELSE "infrared"
        device == Element("Device", [name |-> instname, type |-> "camera"], None,
                          << Element("SpectralRegion", NoAttrs, region, <<>>),
                             Element("Setup", NoAttrs, None,
                                     << Element("Filter", [type |-> upper(filt)], None, <<>>),
                                        detector("2") >>) >>)
        exposure == Element("Exposure", [count |-> exp_count], None,
                            << Element("Value", [units |-> "seconds"], exp_time, <<>>) >>)
        consts == build_constraints(req)
    IN  [ok |-> consts.ok,
         value |-> Element("Schedule", NoAttrs, None,
                           <<device, exposure, build_target(req)>> \o consts.value)]

\* IOOIOIRequest._build_inst_schedule: one Schedule per observation choice.
RECURSIVE build_inst_schedule(_, _, _, _)
build_inst_schedule(instname, payload, req, k) ==
    LET choices == req.payload.observation_choices
    IN  IF k > Len(choices)
        THEN [ok |-> TRUE, value |-> payload]
        ELSE LET s == build_schedule(instname, req, choices[k],
                                     req.payload.exposure_time,
                                     req.payload.exposure_counts)
             IN  IF ~s.ok
                 THEN [ok |-> FALSE, value |-> payload]
                 ELSE build_inst_schedule(
                          instname,
                          [payload EXCEPT !.children = Append(@, s.value)],
                          req, k + 1)

\* IOOIOIRequest.__init__: prolog, project, schedules.
IOOIOIRequest(instname, req, timestamp) ==
    LET project == build_project(build_prolog(req, timestamp), req)
    IN  IF project.ok
        THEN build_inst_schedule(instname, project.value, req, 1)
        ELSE project

\* SPRATRequest._build_SPRAT_schedule: the single Schedule.
build_SPRAT_schedule(payload, req) ==
    LET device == Element("Device", [name |-> "Sprat", type |-> "spectrograph"], None,
                          << Element("SpectralRegion", NoAttrs, "optical", <<>>),
                             Element("Setup", NoAttrs, None,
                                     << Element("Grating", [name |-> req.payload.observation_type],
                                                None, <<>>),
                                        detector("1") >>) >>)
        exposure == Element("Exposure", [count |-> req.payload.exposure_counts], None,
                            << Element("Value", [units |-> "seconds"],
                                       req.payload.exposure_time, <<>>) >>)
        consts == build_constraints(req)
        schedule == Element("Schedule", NoAttrs, None,
                            <<device, exposure, build_target(req)>> \o consts.value)
    IN  IF consts.ok
        THEN [ok |-> TRUE, value |-> [payload EXCEPT !.children = Append(@, schedule)]]
        ELSE [ok |-> FALSE, value |-> payload]

\* SPRATRequest.__init__: prolog, project, schedule.
SPRATRequest(req, timestamp) ==
    LET project == build_project(build_prolog(req, timestamp), req)
    IN  IF project.ok
        THEN build_SPRAT_schedule(project.value, req)
        ELSE project

(***************************************************************************)
(* The node agent's answers to handle_rtml                                 *)
(***************************************************************************)
\* An answer is a SOAP fault raised by handle_rtml ("fault"), a string that
\* is not well-formed XML ("malformed"), or an RTML document ("rtml").
RTML_TAG == "{http://www.rtml.org/v3.1a}RTML"

Error(text) == Element(RTML_ERROR_TAG, NoAttrs, text, <<>>)

History(children) == Element("{http://www.rtml.org/v3.1a}History", NoAttrs, None, children)

\* The documents the node agent answers with in the model: a confirmation; a
\* rejection whose first Error, in document order, is nested in an element
\* that precedes a second Error; an unknown mode with an empty Error; a
\* rejection whose only Error element is not in the RTML namespace; a
\* document without a mode attribute and without children.
ResponseDocs ==
    { Element(RTML_TAG, [mode |-> "confirm", uid |-> "ZTF26abc-7-1767225600"], None, <<>>),
      Element(RTML_TAG, [mode |-> "reject", uid |-> "LT-4711"], None,
              << History(<< Error("target too low") >>), Error("proposal expired") >>),
      Element(RTML_TAG, [mode |-> "fail", uid |-> "ZTF26abc-7-1767225600"], None,
              << Error(None) >>),
      Element(RTML_TAG, [mode |-> "reject", uid |-> "ZTF26abc-7-1767225600"], None,
              << Element("Error", NoAttrs, "queue closed", <<>>) >>),
      Element(RTML_TAG, [uid |-> "LT-4711"], None, <<>>) }

Answers ==
    { [kind |-> "rtml", doc |-> d] : d \in ResponseDocs }
    \cup { [kind |-> "fault", doc |-> Element("", NoAttrs, None, <<>>)],
           [kind |-> "malformed", doc |-> Element("", NoAttrs, None, <<>>)] }

\* element.get(name): the attribute, or None when it is absent.
get(elem, name) == IF name \in DOMAIN elem.attrs THEN elem.attrs[name] ELSE None

\* element.iter(tag): the element and its descendants with that tag, in
\* document order.
RECURSIVE iter(_, _)
RECURSIVE iter_all(_, _)
iter(elem, tag) ==
    (IF elem.tag = tag THEN <<elem>> ELSE <<>>) \o iter_all(elem.children, tag)

iter_all(elems, tag) ==
    IF elems = <<>> THEN <<>>
    ELSE iter(Head(elems), tag) \o iter_all(Tail(elems), tag)

(***************************************************************************)
(* One call of submit or delete, step by step.  A frame holds what the     *)
(* call has done so far; a raised exception ends the call.                 *)
(***************************************************************************)
Frame(req, txs) ==
    [status |-> req.status,       \* request.status
     transactions |-> txs,        \* request.transactions (session.add)
     trace |-> <<>>,              \* the steps executed
     flow |-> <<>>,               \* the messages pushed
     sent |-> <<>>,               \* the payloads handed to handle_rtml
     wrote |-> FALSE,             \* request.status was assigned
     exc |-> "none"]              \* the exception that ended the call

Do(f, step) == [f EXCEPT !.trace = Append(@, step)]

Raise(f, exc) == [f EXCEPT !.exc = exc]

\* log(...)
Log(f) == Do(f, "log")

\* A variant of HandleRtml that sends the payload a second time.
HandleRtml_retry(f, payload) ==
    [Do(Do(f, "handle_rtml"), "handle_rtml") EXCEPT !.sent = @ \o <<payload, payload>>]

\* client.service.handle_rtml(payload): one call to the node agent.
HandleRtml(f, payload) == [Do(f, "handle_rtml") EXCEPT !.sent = Append(@, payload)]

\* request.status = value
SetStatus(f, value) == [Do(f, "set_status") EXCEPT !.status = value, !.wrote = TRUE]

\* Flow().push(to, action, payload)
Push(f, step, to, action, payload) ==
    [Do(f, step) EXCEPT !.flow = Append(@, [to |-> to, action |-> action, payload |-> payload])]

\* FacilityTransaction(request=..., response=..., followup_request=request,
\* initiator_id=...) and session.add(transaction).
AddTransaction(f, payload, response, initiator_id) ==
    [Do(f, "add_transaction") EXCEPT
        !.transactions = Append(@, [request |-> payload,
                                    response |-> response,
                                    initiator_id |-> initiator_id])]

\* The two optional refresh pushes that end submit.
SubmitRefresh(f, req, kw) ==
    LET f1 == IF kw.refresh_source
              THEN Push(f, "push_refresh_source", "*", "skyportal/REFRESH_SOURCE",
                        [obj_key |-> req.obj.internal_key])
              ELSE f
    IN  IF kw.refresh_requests
        THEN Push(f1, "push_refresh_requests", req.last_modified_by_id,
                  "skyportal/REFRESH_FOLLOWUP_REQUESTS", NoAttrs)
        ELSE f1

\* A variant of SubmitRejected that pushes the notification before it sets
\* the status.
SubmitRejected_notify_first(f, req, name, error, push_ok) ==
    LET f1 == IF push_ok
              THEN Push(f, "push_notification", req.last_modified_by_id,
                        "baselayer/SHOW_NOTIFICATION",
                        [note |-> "Failed to submit " \o name \o " request: " \o str(error),
                         type |-> "error"])
              ELSE Log(Do(f, "push_notification"))
    IN  Log(SetStatus(f1, "rejected: " \o str(error)))

\* A variant of SubmitRejected without the try/except around the
\* notification: its failure ends the call.
SubmitRejected_push_uncaught(f, req, name, error, push_ok) ==
    LET f1 == SetStatus(f, "rejected: " \o str(error))
        f2 == Log(f1)
    IN  IF push_ok
        THEN Push(f2, "push_notification", req.last_modified_by_id,
                  "baselayer/SHOW_NOTIFICATION",
                  [note |-> "Failed to submit " \o name \o " request: " \o str(error),
                   type |-> "error"])
        ELSE Raise(Do(f2, "push_notification"), "Exception")

\* The rejection branch of submit: status, log, notification (whose failure is
\* caught and logged).
SubmitRejected(f, req, name, error, push_ok) ==
    LET f1 == SetStatus(f, "rejected: " \o str(error))
        f2 == Log(f1)
    IN  IF push_ok
        THEN Push(f2, "push_notification", req.last_modified_by_id,
                  "baselayer/SHOW_NOTIFICATION",
                  [note |-> "Failed to submit " \o name \o " request: " \o str(error),
                   type |-> "error"])
        ELSE Log(Do(f2, "push_notification"))

\* A variant of SubmitResponse that takes a response without an Error element
\* as a rejection with the error None.
SubmitResponse_missing_error_as_none(f, req, name, full_payload, answer, kw, push_ok) ==
    IF answer.kind = "malformed"
    THEN Raise(Do(f, "parse_response"), "XMLSyntaxError")
    ELSE LET f1 == Do(f, "parse_response")
             response_rtml == answer.doc
             mode == get(response_rtml, "mode")
             errors == iter(response_rtml, RTML_ERROR_TAG) \o << Error(None) >>
             f2 == IF mode = "confirm"
                   THEN SetStatus(f1, "submitted")
                   ELSE SubmitRejected(f1, req, name, errors[1].text, push_ok)
             f3 == AddTransaction(f2, full_payload, answer.doc, req.last_modified_by_id)
         IN  SubmitRefresh(f3, req, kw)

\* A variant of SubmitResponse that reports the last Error instead of the
\* first.
SubmitResponse_last_error(f, req, name, full_payload, answer, kw, push_ok) ==
    IF answer.kind = "malformed"
    THEN Raise(Do(f, "parse_response"), "XMLSyntaxError")
    ELSE LET f1 == Do(f, "parse_response")
             response_rtml == answer.doc
             mode == get(response_rtml, "mode")
             errors == iter(response_rtml, RTML_ERROR_TAG)
         IN  IF mode # "confirm" /\ errors = <<>>
             THEN Raise(f1, "IndexError")
             ELSE LET f2 == IF mode = "confirm"
                            THEN SetStatus(f1, "submitted")
                            ELSE SubmitRejected(f1, req, name, errors[Len(errors)].text, push_ok)
                      f3 == AddTransaction(f2, full_payload, answer.doc,
                                           req.last_modified_by_id)
                  IN  SubmitRefresh(f3, req, kw)

\* submit from the answer on: parse, status, transaction, refresh.
SubmitResponse(f, req, name, full_payload, answer, kw, push_ok) ==
    IF answer.kind = "malformed"
    THEN Raise(Do(f, "parse_response"), "XMLSyntaxError")
    ELSE LET f1 == Do(f, "parse_response")
             response_rtml == answer.doc
             mode == get(response_rtml, "mode")
             errors == iter(response_rtml, RTML_ERROR_TAG)
         IN  IF mode # "confirm" /\ errors = <<>>
             THEN Raise(f1, "IndexError")
             ELSE LET f2 == IF mode = "confirm"
                            THEN SetStatus(f1, "submitted")
                            ELSE SubmitRejected(f1, req, name, errors[1].text, push_ok)
                      f3 == AddTransaction(f2, full_payload, answer.doc,
                                           req.last_modified_by_id)
                  IN  SubmitRefresh(f3, req, kw)

\* ltreq = IOOIOIRequest("IO:O", request) / IOOIOIRequest("IO:I", request) /
\* SPRATRequest(request): the payload, or the ValueError of the date parsing.
BuildRequest(name, req, timestamp) ==
    CASE name = "IOO" -> IOOIOIRequest("IO:O", req, timestamp)
      [] name = "IOI" -> IOOIOIRequest("IO:I", req, timestamp)
      [] name = "SPRAT" -> SPRATRequest(req, timestamp)

\* A variant of SubmitBody that catches the SOAP fault and records it as a
\* rejection.
SubmitBody_catch_fault(name, req, txs, kw, answer, push_ok, ltreq) ==
    LET f0 == Frame(req, txs)
        altdata == req.allocation.altdata
    IN  IF altdata = NoAttrs
        THEN Raise(f0, "ValueError: Missing allocation information.")
        ELSE IF ~ltreq.ok
        THEN Raise(Log(f0), "ValueError: Error parsing dates for LT request, should be in ISO format")
        ELSE LET f1 == Do(Do(f0, "build_payload"), "create_client")
                 full_payload == ltreq.value
                 f2 == HandleRtml(f1, full_payload)
             IN  IF answer.kind = "fault"
                 THEN Raise(Log(SetStatus(f2, "rejected: WebFault")), "WebFault")
                 ELSE SubmitResponse(f2, req, name, full_payload,
                                     answer, kw, push_ok)

\* A variant of SubmitBody that creates the SOAP client before the request is
\* built.
SubmitBody_client_first(name, req, txs, kw, answer, push_ok, ltreq) ==
    LET f0 == Frame(req, txs)
        altdata == req.allocation.altdata
    IN  IF altdata = NoAttrs
        THEN Raise(f0, "ValueError: Missing allocation information.")
        ELSE IF ~ltreq.ok
        THEN Raise(Log(Do(f0, "create_client")),
                   "ValueError: Error parsing dates for LT request, should be in ISO format")
        ELSE LET f1 == Do(Do(f0, "create_client"), "build_payload")
                 full_payload == ltreq.value
                 f2 == HandleRtml(f1, full_payload)
             IN  IF answer.kind = "fault"
                 THEN Raise(f2, "WebFault")
                 ELSE SubmitResponse(f2, req, name, full_payload,
                                     answer, kw, push_ok)

\* The body shared by IOOAPI.submit, IOIAPI.submit and SPRATAPI.submit; name
\* is "IOO", "IOI" or "SPRAT", ltreq is BuildRequest(name, req, timestamp),
\* built when the altdata check has passed.
SubmitBody(name, req, txs, kw, answer, push_ok, ltreq) ==
    LET f0 == Frame(req, txs)
        altdata == req.allocation.altdata
    IN  IF altdata = NoAttrs
        THEN Raise(f0, "ValueError: Missing allocation information.")
        ELSE IF ~ltreq.ok
        THEN Raise(Log(f0), "ValueError: Error parsing dates for LT request, should be in ISO format")
        ELSE LET f1 == Do(Do(f0, "build_payload"), "create_client")
                 full_payload == ltreq.value
                 f2 == HandleRtml(f1, full_payload)
             IN  IF answer.kind = "fault"
                 THEN Raise(f2, "WebFault")
                 ELSE SubmitResponse(f2, req, name, full_payload,
                                     answer, kw, push_ok)

IOOAPI_submit(req, txs, kw, answer, push_ok, ltreq) ==
    SubmitBody("IOO", req, txs, kw, answer, push_ok, ltreq)

IOIAPI_submit(req, txs, kw, answer, push_ok, ltreq) ==
    SubmitBody("IOI", req, txs, kw, answer, push_ok, ltreq)

SPRATAPI_submit(req, txs, kw, answer, push_ok, ltreq) ==
    SubmitBody("SPRAT", req, txs, kw, answer, push_ok, ltreq)

\* The abort document LTAPI.delete builds.
cancel_payload(req, uid) ==
    LET altdata == req.allocation.altdata
    IN  Element("RTML",
                [schemaLocation |-> LT_SCHEMA_LOCATION,
                 mode |-> "abort",
                 uid |-> str(uid),
                 version |-> "3.1a"],
                None,
                << Element("Project", [ProjectID |-> altdata.LT_proposalID], None,
                           << Element("Contact", NoAttrs, None,
                                      << Element("Username", NoAttrs, altdata.username, <<>>),
                                         Element("Name", NoAttrs, altdata.username, <<>>),
                                         Element("Communication", NoAttrs, None, <<>>) >>) >>) >>)

\* A variant of DeleteRefresh that pushes REFRESH_SOURCE whatever the flag.
DeleteRefresh_source_always(f, req, kw) ==
    LET f1 == Push(f, "push_refresh_source", "*", "skyportal/REFRESH_SOURCE",
                   [obj_key |-> req.obj.internal_key])
    IN  IF kw.refresh_requests
        THEN Push(f1, "push_refresh_requests", req.last_modified_by_id,
                  "skyportal/REFRESH_FOLLOWUP_REQUESTS", NoAttrs)
        ELSE f1

\* The two optional refresh pushes of delete.
DeleteRefresh(f, req, kw) ==
    LET f1 == IF kw.refresh_source
              THEN Push(f, "push_refresh_source", "*", "skyportal/REFRESH_SOURCE",
                        [obj_key |-> req.obj.internal_key])
              ELSE f
    IN  IF kw.refresh_requests
        THEN Push(f1, "push_refresh_requests", req.last_modified_by_id,
                  "skyportal/REFRESH_FOLLOWUP_REQUESTS", NoAttrs)
        ELSE f1

\* A variant of DeleteResponse that marks the request deleted on a rejection
\* too.
DeleteResponse_reject_deletes(f, req, cancel, answer, kw) ==
    IF answer.kind = "malformed"
    THEN Raise(Do(f, "parse_response"), "XMLSyntaxError")
    ELSE LET f1 == Do(f, "parse_response")
             mode == get(answer.doc, "mode")
         IN  IF mode \in {"confirm", "reject"}
             THEN LET f2 == SetStatus(f1, "deleted")
                      f3 == AddTransaction(f2, cancel, answer.doc,
                                           req.last_modified_by_id)
                  IN  DeleteRefresh(f3, req, kw)
             ELSE Log(f1)

\* delete from the answer on.
DeleteResponse(f, req, cancel, answer, kw) ==
    IF answer.kind = "malformed"
    THEN Raise(Do(f, "parse_response"), "XMLSyntaxError")
    ELSE LET f1 == Do(f, "parse_response")
             mode == get(answer.doc, "mode")
         IN  IF mode \in {"confirm", "reject"}
             THEN LET f2 == IF mode = "confirm" THEN SetStatus(f1, "deleted") ELSE f1
                      f3 == AddTransaction(f2, cancel, answer.doc,
                                           req.last_modified_by_id)
                  IN  DeleteRefresh(f3, req, kw)
             ELSE Log(f1)

\* A variant of LTAPI.delete that takes the uid of the most recent
\* transaction.
LTAPI_delete_last_uid(req, txs, kw, answer) ==
    LET f0 == Frame(req, txs)
        altdata == req.allocation.altdata
    IN  IF altdata = NoAttrs
        THEN Raise(f0, "ValueError: Missing allocation information.")
        ELSE IF txs = <<>>
        THEN Raise(f0, "IndexError")
        ELSE LET uid == get(txs[Len(txs)].response, "uid")
                 cancel == cancel_payload(req, uid)
                 f1 == Do(Do(f0, "build_payload"), "create_client")
                 f2 == HandleRtml(f1, cancel)
             IN  IF answer.kind = "fault"
                 THEN Raise(f2, "WebFault")
                 ELSE DeleteResponse(f2, req, cancel, answer, kw)

\* LTAPI.delete
LTAPI_delete(req, txs, kw, answer) ==
    LET f0 == Frame(req, txs)
        altdata == req.allocation.altdata
    IN  IF altdata = NoAttrs
        THEN Raise(f0, "ValueError: Missing allocation information.")
        ELSE IF txs = <<>>
        THEN Raise(f0, "IndexError")
        ELSE LET uid == get(txs[1].response, "uid")
                 cancel == cancel_payload(req, uid)
                 f1 == Do(Do(f0, "build_payload"), "create_client")
                 f2 == HandleRtml(f1, cancel)
             IN  IF answer.kind = "fault"
                 THEN Raise(f2, "WebFault")
                 ELSE DeleteResponse(f2, req, cancel, answer, kw)

(***************************************************************************)
(* The follow-up requests the calls are made on                            *)
(***************************************************************************)
\* The most transactions a request accumulates in the model.
MaxTransactions == 2

Altdata == [username |-> "observer", password |-> "secret", LT_proposalID |-> "JL26B01"]

ImagerPayload(choices) ==
    [observation_choices |-> choices,
     exposure_time |-> "300.0", exposure_counts |-> "1",
     maximum_airmass |-> "2.0", maximum_seeing |-> "1.2", sky_brightness |-> "2.0",
     photometric |-> TRUE,
     start_date |-> "2026-11-01T20:30:00.250000", end_date |-> "2026-11-08T20:30:00"]

SpratPayload ==
    [observation_type |-> "blue",
     exposure_time |-> "300.0", exposure_counts |-> "1",
     maximum_airmass |-> "2.0", maximum_seeing |-> "1.2", sky_brightness |-> "2.0",
     start_date |-> "2026-11-01T20:30:00.250000", end_date |-> "2026-11-08T20:30:00"]

\* A payload without end_date, as a request that skipped the form's schema.
NoEndDatePayload ==
    [observation_type |-> "red",
     exposure_time |-> "300.0", exposure_counts |-> "1",
     maximum_airmass |-> "2.0", maximum_seeing |-> "1.2", sky_brightness |-> "2.0",
     start_date |-> "2026-11-01T20:30:00.250000"]

FollowupRequest(api, payload, altdata) ==
    [id |-> "7",
     obj |-> [id |-> "ZTF26abc", internal_key |-> "obj-key-1",
              ra |-> "10.5", dec |-> "-20.25"],
     last_modified_by_id |-> "user-3",
     status |-> "pending submission",
     api |-> api,
     allocation |-> [altdata |-> altdata],
     payload |-> payload]

Requests ==
    { FollowupRequest("IOO", ImagerPayload(<<"g">>), Altdata),
      FollowupRequest("IOO", ImagerPayload(<<"r", "i">>), Altdata),
      FollowupRequest("IOI", ImagerPayload(<<"H">>), Altdata),
      FollowupRequest("SPRAT", SpratPayload, Altdata),
      FollowupRequest("IOO", [ImagerPayload(<<"g">>) EXCEPT !.start_date = "next tuesday"], Altdata),
      FollowupRequest("SPRAT", NoEndDatePayload, Altdata),
      FollowupRequest("IOO", ImagerPayload(<<"g">>), NoAttrs),
      FollowupRequest("IOI", ImagerPayload(<<"H">>), NoAttrs),
      FollowupRequest("SPRAT", SpratPayload, NoAttrs) }

\* int(time.time()) at the moment of a submit.
Timestamps == {"1767225600"}

Kwargs == [refresh_source : BOOLEAN, refresh_requests : BOOLEAN]

NoCall ==
    [op |-> "none", kw |-> [refresh_source |-> FALSE, refresh_requests |-> FALSE],
     answer |-> [kind |-> "none", doc |-> Element("", NoAttrs, None, <<>>)],
     push_ok |-> TRUE, status_before |-> "pending submission", ntx_before |-> 0,
     sent |-> <<>>, exc |-> "none"]

InitLT ==
    /\ request \in Requests
    /\ transactions = <<>>
    /\ call = NoCall
    /\ trace = <<>>
    /\ flow = <<>>
    /\ lastWrite = [op |-> "none", mode |-> None]

\* The state after a call that ended in frame f.
Finish(op, kw, answer, push_ok, f) ==
    /\ Len(f.transactions) <= MaxTransactions
    /\ UNCHANGED notLT
    /\ request' = [request EXCEPT !.status = f.status]
    /\ transactions' = f.transactions
    /\ trace' = f.trace
    /\ flow' = f.flow
    /\ call' = [op |-> op, kw |-> kw, answer |-> answer, push_ok |-> push_ok,
                status_before |-> request.status, ntx_before |-> Len(transactions),
                sent |-> f.sent, exc |-> f.exc]
    /\ lastWrite' = IF f.wrote
                    THEN [op |-> op, mode |-> get(answer.doc, "mode")]
                    ELSE lastWrite

\* The notification push is attempted only in the rejection branch: only
\* there can it fail.
NotificationAttempted(answer) ==
    /\ answer.kind = "rtml"
    /\ get(answer.doc, "mode") # "confirm"
    /\ iter(answer.doc, RTML_ERROR_TAG) # <<>>

IOOSubmit ==
    /\ request.api = "IOO"
    /\ \E ts \in Timestamps :
          \E ltreq \in {BuildRequest("IOO", request, ts)} :
             \E kw \in Kwargs, answer \in Answers, push_ok \in BOOLEAN :
                /\ ~push_ok => NotificationAttempted(answer)
                /\ \E f \in {IOOAPI_submit(request, transactions, kw, answer, push_ok, ltreq)} :
                      Finish("submit", kw, answer, push_ok, f)

IOISubmit ==
    /\ request.api = "IOI"
    /\ \E ts \in Timestamps :
          \E ltreq \in {BuildRequest("IOI", request, ts)} :
             \E kw \in Kwargs, answer \in Answers, push_ok \in BOOLEAN :
                /\ ~push_ok => NotificationAttempted(answer)
                /\ \E f \in {IOIAPI_submit(request, transactions, kw, answer, push_ok, ltreq)} :
                      Finish("submit", kw, answer, push_ok, f)

SPRATSubmit ==
    /\ request.api = "SPRAT"
    /\ \E ts \in Timestamps :
          \E ltreq \in {BuildRequest("SPRAT", request, ts)} :
             \E kw \in Kwargs, answer \in Answers, push_ok \in BOOLEAN :
                /\ ~push_ok => NotificationAttempted(answer)
                /\ \E f \in {SPRATAPI_submit(request, transactions, kw, answer, push_ok, ltreq)} :
                      Finish("submit", kw, answer, push_ok, f)

Delete ==
    \E kw \in Kwargs, answer \in Answers :
        \E f \in {LTAPI_delete(request, transactions, kw, answer)} :
            Finish("delete", kw, answer, TRUE, f)

NextLT == IOOSubmit \/ IOISubmit \/ SPRATSubmit \/ Delete

(***************************************************************************)
(* Properties of the LT follow-up API                                      *)
(***************************************************************************)
\* The steps of the most recent call that are step.
Positions(step) == {i \in DOMAIN trace : trace[i] = step}

\* The most recent call got an answer from the node agent and returned.
Returned(op) == call.op = op /\ call.exc = "none" /\ Positions("parse_response") # {}

\* The mode attribute of the answer to the most recent call.
AnswerMode == get(call.answer.doc, "mode")

\* C1: when submit returns after a response, the status is "submitted" iff
\* the response's mode is "confirm", and for any other mode it is "rejected: "
\* followed by the text (as Python formats it) of the first Error element.
C1_SubmitStatus ==
    Returned("submit") =>
        /\ request.status = "submitted" <=> AnswerMode = "confirm"
        /\ AnswerMode # "confirm" =>
              request.status =
                  "rejected: " \o str(iter(call.answer.doc, RTML_ERROR_TAG)[1].text)

\* A submit returned on a rejection whose first Error is nested before a second.
C1_Witness ==
    /\ Returned("submit")
    /\ AnswerMode = "reject"
    /\ Len(iter(call.answer.doc, RTML_ERROR_TAG)) = 2
    /\ request.status = "rejected: target too low"

\* C2: the status is "deleted" only if the most recent call that assigned the
\* status was a delete answered with mode "confirm", and a delete answered
\* with mode "reject" leaves the status as it was before the call.
C2_DeletedOnlyByConfirmedDelete ==
    /\ request.status = "deleted" =>
          lastWrite.op = "delete" /\ lastWrite.mode = "confirm"
    /\ (call.op = "delete" /\ call.answer.kind = "rtml" /\ AnswerMode = "reject") =>
          request.status = call.status_before

\* A delete was rejected after a submit had been confirmed.
C2_Witness ==
    /\ Returned("delete")
    /\ AnswerMode = "reject"
    /\ request.status = "submitted"
    /\ Len(transactions) = 2

\* The exceptions of the external-service failures of a submit.
ExternalFailures ==
    {"WebFault", "XMLSyntaxError", "ValueError: Missing allocation information."}

\* The statuses submit gives a rejected request.
RejectedStatuses ==
    {"rejected: " \o str(t) : t \in {"target too low", "proposal expired", None}}

\* C3 as stated: a submit that fails on a SOAP error, a malformed response or
\* missing altdata logs the failure and leaves a rejected status.
C3_Original ==
    (call.op = "submit" /\ call.exc \in ExternalFailures) =>
        /\ Positions("log") # {}
        /\ request.status \in RejectedStatuses

\* C3 amended: such a submit raises to its caller, having logged nothing,
\* left the status as it was, added no transaction and pushed nothing; and a
\* submit gives a rejected status only on a well-formed response that is not
\* a confirmation and holds an Error, which it logs.
C3_FailureRaises ==
    /\ (call.op = "submit" /\ call.exc \in ExternalFailures) =>
          /\ Positions("log") = {}
          /\ request.status = call.status_before
          /\ Len(transactions) = call.ntx_before
          /\ flow = <<>>
    /\ (call.op = "submit" /\ Positions("set_status") # {}
          /\ request.status \in RejectedStatuses) =>
          /\ call.answer.kind = "rtml"
          /\ AnswerMode # "confirm"
          /\ iter(call.answer.doc, RTML_ERROR_TAG) # <<>>
          /\ Positions("log") # {}

\* A submit on a submitted request ended in a SOAP fault.
C3_Witness ==
    /\ call.op = "submit"
    /\ call.exc = "WebFault"
    /\ call.status_before = "submitted"

\* C4: one call of submit or delete hands at most one payload to handle_rtml,
\* whatever the answer.
C4_NoRetry ==
    call.op \in {"submit", "delete"} =>
        /\ Len(call.sent) <= 1
        /\ Cardinality(Positions("handle_rtml")) <= 1

\* A submit got an answer without a mode and raised, after one handle_rtml.
C4_Witness ==
    /\ call.op = "submit"
    /\ call.exc = "IndexError"
    /\ AnswerMode = None
    /\ Len(call.sent) = 1

\* Every occurrence of step b in the trace comes after an occurrence of a.
Precedes(a, b) ==
    \A j \in Positions(b) : \E i \in Positions(a) : i < j

PushSteps == {"push_notification", "push_refresh_source", "push_refresh_requests"}

\* C5: within a submit the payload is built before it is sent, the response
\* is parsed after the send, the status is set after the parse, and every
\* push comes after the status update.
C5_SubmitOrder ==
    call.op = "submit" =>
        /\ Precedes("build_payload", "handle_rtml")
        /\ Precedes("handle_rtml", "parse_response")
        /\ Precedes("parse_response", "set_status")
        /\ \A p \in PushSteps : Precedes("set_status", p)
        /\ \A p \in PushSteps : \A i \in Positions("set_status"), j \in Positions(p) : i < j

\* A rejected submit that pushed the notification and both refresh messages.
C5_Witness ==
    /\ call.op = "submit"
    /\ trace = << "build_payload", "create_client", "handle_rtml", "parse_response",
                  "set_status", "log", "push_notification", "add_transaction",
                  "push_refresh_source", "push_refresh_requests" >>

\* C10: every document handed to handle_rtml has root RTML, version "3.1a"
\* and declares the RTML namespace; a submit sends mode "request", a delete
\* mode "abort".
C10_PayloadProlog ==
    \A i \in DOMAIN call.sent :
        LET payload == call.sent[i]
        IN  /\ payload.tag = "RTML"
            /\ get(payload, "version") = "3.1a"
            /\ get(payload, "xmlns") = LT_XML_NS
            /\ call.op = "submit" => get(payload, "mode") = "request"
            /\ call.op = "delete" => get(payload, "mode") = "abort"

\* The most recent call was a submit that got a response with mode "confirm",
\* or with another mode and an Error element.
SubmitAnswered ==
    /\ call.op = "submit"
    /\ Positions("handle_rtml") # {}
    /\ call.answer.kind = "rtml"
    /\ \/ AnswerMode = "confirm"
       \/ iter(call.answer.doc, RTML_ERROR_TAG) # <<>>

\* C22: a submit that gets a response with mode "confirm", or with another
\* mode and an Error element, returns and has added exactly one
\* FacilityTransaction, with the payload sent, the response received and
\* request.last_modified_by_id as initiator_id; this is so when the push of
\* the rejection notification fails, and the status is then the rejection.
C22_SubmitAddsOneTransaction ==
    SubmitAnswered =>
        /\ call.exc = "none"
        /\ Cardinality(Positions("add_transaction")) = 1
        /\ Len(transactions) = call.ntx_before + 1
        /\ transactions[Len(transactions)] =
              [request |-> call.sent[1], response |-> call.answer.doc,
               initiator_id |-> request.last_modified_by_id]
        /\ ~call.push_ok =>
              request.status =
                  "rejected: " \o str(iter(call.answer.doc, RTML_ERROR_TAG)[1].text)

\* A rejected submit whose notification could not be pushed added the second
\* transaction of the request.
C22_Witness ==
    /\ SubmitAnswered
    /\ ~call.push_ok
    /\ call.exc = "none"
    /\ Len(transactions) = 2
    /\ request.status = "rejected: target too low"

\* The most recent call changed nothing: the status is as it was, no
\* transaction was added and no message was pushed.
ChangedNothing ==
    /\ request.status = call.status_before
    /\ Positions("set_status") = {}
    /\ Len(transactions) = call.ntx_before
    /\ Positions("add_transaction") = {}
    /\ flow = <<>>

\* The most recent call made no SOAP client and no handle_rtml call.
NoTransport ==
    /\ Positions("create_client") = {}
    /\ Positions("handle_rtml") = {}
    /\ call.sent = <<>>

\* C23: a submit or delete on a request whose allocation altdata is empty
\* raises ValueError 'Missing allocation information.', and a submit whose
\* start_date or end_date is missing or cannot be parsed raises ValueError
\* 'Error parsing dates for LT request, should be in ISO format'; in both
\* cases no SOAP client was created and no handle_rtml call made, the status
\* is unchanged, no transaction was added and no message pushed.
C23_PreconditionFailures ==
    /\ (call.op \in {"submit", "delete"} /\ request.allocation.altdata = NoAttrs) =>
          /\ call.exc = "ValueError: Missing allocation information."
          /\ NoTransport
          /\ ChangedNothing
    /\ (call.op = "submit" /\ request.allocation.altdata # NoAttrs
            /\ ~dates_parse(request)) =>
          /\ call.exc = "ValueError: Error parsing dates for LT request, should be in ISO format"
          /\ NoTransport
          /\ ChangedNothing

\* A submit of a request without end_date raised the ValueError of the dates.
C23_Witness ==
    /\ call.op = "submit"
    /\ "end_date" \notin DOMAIN request.payload
    /\ call.exc = "ValueError: Error parsing dates for LT request, should be in ISO format"
    /\ trace = <<"log">>

\* The most recent call was a submit answered with a mode other than
\* "confirm" by a document without an Error element of the RTML namespace.
SubmitAnsweredWithoutError ==
    /\ call.op = "submit"
    /\ Positions("handle_rtml") # {}
    /\ call.answer.kind = "rtml"
    /\ AnswerMode # "confirm"
    /\ iter(call.answer.doc, RTML_ERROR_TAG) = <<>>

\* C24: a submit answered with a mode other than "confirm" by a response
\* without an Error element of the RTML namespace raises IndexError after the
\* payload was sent: the status is unchanged, no transaction was added and no
\* notification or refresh message pushed.
C24_NoErrorElementRaises ==
    SubmitAnsweredWithoutError =>
        /\ call.exc = "IndexError"
        /\ Len(call.sent) = 1
        /\ Precedes("handle_rtml", "parse_response")
        /\ ChangedNothing
        /\ Positions("log") = {}
        /\ \A p \in PushSteps : Positions(p) = {}

\* A submit with both refresh flags set was answered by a rejection whose
\* Error element is not in the RTML namespace.
C24_Witness ==
    /\ SubmitAnsweredWithoutError
    /\ AnswerMode = "reject"
    /\ call.answer.doc.children # <<>>
    /\ call.kw.refresh_source
    /\ call.kw.refresh_requests
    /\ call.exc = "IndexError"

\* The messages the refresh flags of the most recent call ask for, in the
\* order of the pushes.
RefreshMessages ==
    (IF call.kw.refresh_source
     THEN << [to |-> "*", action |-> "skyportal/REFRESH_SOURCE",
              payload |-> [obj_key |-> request.obj.internal_key]] >>
     ELSE <<>>) \o
    (IF call.kw.refresh_requests
     THEN << [to |-> request.last_modified_by_id,
              action |-> "skyportal/REFRESH_FOLLOWUP_REQUESTS", payload |-> NoAttrs] >>
     ELSE <<>>)

\* C25: when the response to the abort of a delete has a mode that is neither
\* "confirm" nor "reject", the call leaves the status unchanged, adds no
\* transaction and pushes nothing, whatever the refresh flags; when the mode
\* is "confirm" or "reject" it adds exactly one transaction and pushes
\* skyportal/REFRESH_SOURCE iff refresh_source is set and
\* skyportal/REFRESH_FOLLOWUP_REQUESTS to last_modified_by_id iff
\* refresh_requests is set, and nothing else.
C25_DeleteByMode ==
    Returned("delete") =>
        /\ AnswerMode \notin {"confirm", "reject"} => ChangedNothing
        /\ AnswerMode \in {"confirm", "reject"} =>
              /\ Cardinality(Positions("add_transaction")) = 1
              /\ Len(transactions) = call.ntx_before + 1
              /\ transactions[Len(transactions)].request = call.sent[1]
              /\ transactions[Len(transactions)].response = call.answer.doc
              /\ flow = RefreshMessages

\* A delete with both refresh flags set was answered with mode "fail".
C25_Witness ==
    /\ Returned("delete")
    /\ AnswerMode = "fail"
    /\ call.kw.refresh_source
    /\ call.kw.refresh_requests
    /\ flow = <<>>
    /\ call.status_before = "submitted"
    /\ request.status = "submitted"

\* C26: the abort payload of a delete has as its uid the uid attribute of the
\* response of the first transaction of the request, however many
\* transactions there are; a delete on a request without transactions raises
\* before any call to the node agent and changes nothing.
C26_AbortUid ==
    /\ (call.op = "delete" /\ call.sent # <<>>) =>
          /\ transactions # <<>>
          /\ get(call.sent[1], "uid") = str(get(transactions[1].response, "uid"))
    /\ (call.op = "delete" /\ call.ntx_before = 0) =>
          /\ call.exc # "none"
          /\ NoTransport
          /\ ChangedNothing

\* A delete on a request with two transactions, whose responses have
\* different uids, sent the uid of the first.
C26_Witness ==
    /\ call.op = "delete"
    /\ call.ntx_before = 2
    /\ Len(call.sent) = 1
    /\ get(transactions[1].response, "uid") = "LT-4711"
    /\ get(transactions[2].response, "uid") # "LT-4711"
    /\ get(call.sent[1], "uid") = "LT-4711"

\* The tags of an element's children, in order.
ChildTags(elem) == [i \in DOMAIN elem.children |-> elem.children[i].tag]

\* The children of a Schedule: device, exposure, target, the five constraints.
SCHEDULE_CHILDREN ==
    << "Device", "Exposure", "Target", "AirmassConstraint", "SkyConstraint",
       "SeeingConstraint", "ExtinctionConstraint", "DateTimeConstraint" >>

\* The Filter elements of a Schedule's device setup.
ScheduleFilters(schedule) == iter(schedule.children[1], "Filter")

\* C11: every observation payload a submit sends has the Project as its first
\* child and Schedules after it; for IO:O and IO:I there is one Schedule per
\* entry of observation_choices, in that order, with the filter upper-cased,
\* for SPRAT there is one Schedule; every Schedule holds Device, Exposure,
\* Target, then the Airmass, Sky, Seeing, Extinction and DateTime constraints.
C11_PayloadStructure ==
    call.op = "submit" =>
        \A i \in DOMAIN call.sent :
            LET payload == call.sent[i]
                schedules == Tail(payload.children)
                choices == request.payload.observation_choices
            IN  /\ payload.children # <<>>
                /\ payload.children[1].tag = "Project"
                /\ \A k \in DOMAIN schedules :
                      /\ schedules[k].tag = "Schedule"
                      /\ ChildTags(schedules[k]) = SCHEDULE_CHILDREN
                /\ request.api \in {"IOO", "IOI"} =>
                      /\ Len(schedules) = Len(choices)
                      /\ \A k \in DOMAIN schedules :
                            /\ Len(ScheduleFilters(schedules[k])) = 1
                            /\ get(ScheduleFilters(schedules[k])[1], "type") = upper(choices[k])
                /\ request.api = "SPRAT" => Len(schedules) = 1

\* A payload with two Schedules, for the filters r and i, was sent.
C11_Witness ==
    /\ call.op = "submit"
    /\ request.api = "IOO"
    /\ request.payload.observation_choices = <<"r", "i">>
    /\ Len(call.sent) = 1
    /\ Len(call.sent[1].children) = 3
    /\ get(ScheduleFilters(call.sent[1].children[3])[1], "type") = "I"

(***************************************************************************)
(* models/analysis.py: the access rules of ObjAnalysis                     *)
(***************************************************************************)
\* The most rows the obj_analyses table gets in the model.
MaxAnalyses == 1

Users == {"alice", "bob", "carol"}

Groups == {"g1", "g2"}

\* The group_users table: alice is in g1, bob in both groups, carol in none.
GroupUsers == {<<"g1", "alice">>, <<"g1", "bob">>, <<"g2", "bob">>}

\* accessible_by_groups_members: the user is a member of one of the row's groups.
accessible_by_groups_members(user, row) ==
    \E g \in row.groups : <<g, user>> \in GroupUsers

\* AccessibleIfRelatedRowsAreAccessible(obj='read'): the user can read the row's Obj.
AccessibleIfRelatedRowsAreAccessible_obj_read(user, row) ==
    user \in obj_readers

\* AccessibleIfUserMatches('author'): the user is the row's author.
AccessibleIfUserMatches_author(user, row) ==
    row.author_id = user

\* A variant of ObjAnalysis.read that joins the two conditions with | instead
\* of &.
ObjAnalysis_read_either(user, row) ==
    \/ accessible_by_groups_members(user, row)
    \/ AccessibleIfRelatedRowsAreAccessible_obj_read(user, row)

\* A variant of ObjAnalysis.update that lets the members of the row's groups
\* update it.
ObjAnalysis_update_by_members(user, row) ==
    accessible_by_groups_members(user, row)

\* ObjAnalysis.create
ObjAnalysis_create(user, row) ==
    AccessibleIfRelatedRowsAreAccessible_obj_read(user, row)

\* ObjAnalysis.read
ObjAnalysis_read(user, row) ==
    /\ accessible_by_groups_members(user, row)
    /\ AccessibleIfRelatedRowsAreAccessible_obj_read(user, row)

\* ObjAnalysis.update
ObjAnalysis_update(user, row) ==
    AccessibleIfUserMatches_author(user, row)

\* ObjAnalysis.delete (update = delete = ...)
ObjAnalysis_delete(user, row) ==
    ObjAnalysis_update(user, row)

\* A row of obj_analyses: the columns the access rules and the updates use.
ObjAnalysis(id, author_id, groups, show_parameters) ==
    [id |-> id, obj_id |-> "ZTF26abc", author_id |-> author_id, groups |-> groups,
     show_parameters |-> show_parameters]

NoAccess ==
    [op |-> "none", user |-> "", row |-> ObjAnalysis(0, "", {}, FALSE),
     allowed |-> FALSE, before |-> {}]

InitAnalysis ==
    /\ obj_readers \in SUBSET Users
    /\ obj_analyses = {}
    /\ next_id = 1
    /\ access = NoAccess

Accessed(op, user, row, allowed) ==
    [op |-> op, user |-> user, row |-> row, allowed |-> allowed,
     before |-> obj_analyses]

\* A user inserts a row they author; the insert is refused without create access.
AnalysisCreate ==
    /\ next_id <= MaxAnalyses
    /\ \E user \in Users, groups \in SUBSET Groups :
          LET row == ObjAnalysis(next_id, user, groups, FALSE)
              allowed == ObjAnalysis_create(user, row)
          IN  /\ access' = Accessed("create", user, row, allowed)
              /\ obj_analyses' = IF allowed THEN obj_analyses \cup {row} ELSE obj_analyses
              /\ next_id' = IF allowed THEN next_id + 1 ELSE next_id
              /\ UNCHANGED <<obj_readers, notAnalysis>>

\* A user asks for a row; it is returned only with read access.
AnalysisRead ==
    \E user \in Users, row \in obj_analyses :
        /\ access' = Accessed("read", user, row, ObjAnalysis_read(user, row))
        /\ UNCHANGED <<obj_readers, obj_analyses, next_id, notAnalysis>>

\* A user changes a column of a row; the change is refused without update access.
AnalysisUpdate ==
    \E user \in Users, row \in obj_analyses, value \in BOOLEAN :
        LET allowed == ObjAnalysis_update(user, row)
        IN  /\ access' = Accessed("update", user, row, allowed)
            /\ obj_analyses' =
                  IF allowed
                  THEN (obj_analyses \ {row}) \cup {[row EXCEPT !.show_parameters = value]}
                  ELSE obj_analyses
            /\ UNCHANGED <<obj_readers, next_id, notAnalysis>>

\* A user deletes a row; the deletion is refused without delete access.
AnalysisDelete ==
    \E user \in Users, row \in obj_analyses :
        LET allowed == ObjAnalysis_delete(user, row)
        IN  /\ access' = Accessed("delete", user, row, allowed)
            /\ obj_analyses' = IF allowed THEN obj_analyses \ {row} ELSE obj_analyses
            /\ UNCHANGED <<obj_readers, next_id, notAnalysis>>

NextAnalysis == AnalysisCreate \/ AnalysisRead \/ AnalysisUpdate \/ AnalysisDelete

\* C6: a row is read only by a user who is a member of one of its groups and
\* can read its Obj, and a row is created only by a user who can read its Obj.
C6_ReadNeedsGroupAndObj ==
    /\ (access.op = "read" /\ access.allowed) =>
          /\ \E g \in access.row.groups : <<g, access.user>> \in GroupUsers
          /\ access.user \in obj_readers
    /\ (access.op = "create" /\ access.allowed) => access.user \in obj_readers

\* A member of the row's groups who cannot read the Obj was refused the row.
C6_Witness ==
    /\ access.op = "read"
    /\ ~access.allowed
    /\ \E g \in access.row.groups : <<g, access.user>> \in GroupUsers
    /\ access.user \notin obj_readers

\* C7: an update or delete by a user other than the row's author is refused
\* and leaves the table as it was.
C7_OnlyAuthorWrites ==
    (access.op \in {"update", "delete"} /\ access.user # access.row.author_id) =>
        /\ ~access.allowed
        /\ obj_analyses = access.before

\* A member of the row's groups who can read it, and is not its author, was
\* refused an update.
C7_Witness ==
    /\ access.op = "update"
    /\ access.user # access.row.author_id
    /\ \E g \in access.row.groups : <<g, access.user>> \in GroupUsers
    /\ access.user \in obj_readers
    /\ ~access.allowed
    /\ access.row \in obj_analyses

(***************************************************************************)
(* handlers/api/spectrum.py: the spectrum handlers                         *)
(***************************************************************************)
\* The most spectra the handlers add to the table in the model.
MaxSpectra == 1

\* maximum size 10MB - above this don't parse (len(ascii) > 1e7).
MAX_ASCII_LENGTH == 10000000

\* The rows of the other tables the handlers look up.
Objs == {"ZTF26abc"}

Instruments == {"1"}

PUBLIC_GROUP == "public"

GroupIds == {"g1", "g2", "public", "alice-group"}

\* The rows of the groups table, in the order a query returns them.
GroupTable == <<"g1", "g2", "public", "alice-group">>

\* The users who call the handlers: alice and bob have access to the Obj,
\* carol has not; alice has a single user group.
Callers == {"alice", "bob", "carol"}

ObjAccess == {<<"ZTF26abc", "alice">>, <<"ZTF26abc", "bob">>}

\* The user's single user group, if it has one.
single_user_group(user) == IF user = "alice" THEN "alice-group" ELSE None

\* Source.get_obj_if_owned_by: the Obj, None when there is no such Obj, or an
\* AccessError when the user has no access to it.
get_obj_if_owned_by(obj_id, user) ==
    IF obj_id \notin Objs THEN None
    ELSE IF <<obj_id, user>> \in ObjAccess THEN "obj"
    ELSE "AccessError"

\* Values a schema rejects for its field, and the fields whose values the
\* schemas check (group_ids is loaded raw).
BadValues == {"not a list", "not a date"}

TypedFields == {"obj_id", "instrument_id", "observed_at", "wavelengths", "fluxes", "filename"}

\* The fields SpectrumPost requires.
SpectrumPostRequired == {"obj_id", "instrument_id", "observed_at", "wavelengths", "fluxes"}

\* schema.load(json): the loaded data, or the ValidationError with its
\* normalized messages, one per rejected field.
schema_load(required, json, partial) ==
    LET missing == IF partial THEN {} ELSE required \ DOMAIN json
        bad == {k \in DOMAIN json \cap TypedFields : json[k] \in BadValues}
        messages == [k \in missing \cup bad |->
                        IF k \in missing THEN "Missing data for required field."
                        ELSE "Not a valid value."]
    IN  IF missing \cup bad = {}
        THEN [ok |-> TRUE, data |-> json, messages |-> NoAttrs]
        ELSE [ok |-> FALSE, data |-> NoAttrs, messages |-> messages]

\* SpectrumPost.load(json, partial=...)
SpectrumPost_load(json, partial) == schema_load(SpectrumPostRequired, json, partial)

\* The group_ids values of a request: the string "all", a list of ids, or
\* anything else.
AllGroups == [kind |-> "all", ids |-> <<>>]

GroupList(ids) == [kind |-> "list", ids |-> ids]

NotGroupIds == [kind |-> "other", ids |-> <<>>]

\* GroupIDList.load({'group_ids': group_ids}) accepts a list of integers.
GroupIDList_load(group_ids) == group_ids.kind = "list"

Range(seq) == {seq[i] : i \in DOMAIN seq}

\* self.success(data=...), self.error(message) and an exception that leaves
\* the handler.
success(data) ==
    [kind |-> "success", text |-> "", messages |-> NoAttrs, data |-> data]

error(text, messages) ==
    [kind |-> "error", text |-> text, messages |-> messages, data |-> NoAttrs]

raised(exc) ==
    [kind |-> "exception", text |-> exc, messages |-> NoAttrs, data |-> NoAttrs]

\* What a handler did: its response, the table it left, whether it
\* committed, what it pushed and the strings it gave to Spectrum.from_ascii.
Handled(response, table, seq, committed, pushed) ==
    [response |-> response, spectra |-> table, seq |-> seq,
     committed |-> committed, pushed |-> pushed, parsed |-> <<>>]

\* A handler that ended without touching the session.
Refused(response) == Handled(response, spectra, spectrum_seq, FALSE, <<>>)

REFRESH_SOURCE(obj_id) ==
    [action |-> "skyportal/REFRESH_SOURCE", obj_key |-> obj_id]

\* original_file_string of a spectrum that was not read from a file.
NoFile == [len |-> 0, chars |-> None, content |-> None]

\* Spectrum(**data) with its instrument and groups, as the commit stores it.
Spectrum(id, data, groups, filename, file_string) ==
    [id |-> id, obj_id |-> data.obj_id, instrument_id |-> data.instrument_id,
     observed_at |-> data.observed_at, groups |-> groups,
     original_file_filename |-> filename, original_file_string |-> file_string]

\* SpectrumHandler.post
SpectrumHandler_post(json) ==
    LET loaded == SpectrumPost_load(json, FALSE)
        data == loaded.data
        group_ids == data.group_ids
        Named(g) == g \in Range(group_ids.ids)
        groups == IF group_ids.kind = "all"
                  THEN <<PUBLIC_GROUP>>
                  ELSE SelectSeq(GroupTable, Named)
        spec == Spectrum(spectrum_seq, data, groups, None, NoFile)
    IN  IF ~loaded.ok
        THEN Refused(error("Invalid / missing parameters; ", loaded.messages))
        ELSE IF group_ids.kind # "all" /\ ~GroupIDList_load(group_ids)
        THEN Refused(error("Invalid group_ids parameter value. Must be a list of IDs (integers) or the string 'all'.", NoAttrs))
        ELSE IF data.instrument_id \notin Instruments
        THEN Refused(error("Invalid instrument id.", NoAttrs))
        ELSE Handled(success([id |-> spec.id]), spectra \cup {spec},
                     spectrum_seq + 1, TRUE, <<REFRESH_SOURCE(spec.obj_id)>>)

\* Spectrum.query.get(spectrum_id): the rows with that id (one or none).
query_get(spectrum_id) == {row \in spectra : row.id = spectrum_id}

\* The spectrum ids of the request paths, and int(spectrum_id).
PathIds == {"1", "2", "3"}

int(text) == CASE text = "1" -> 1 [] text = "2" -> 2 [] text = "3" -> 3

\* SpectrumHandler.get
SpectrumHandler_get(spectrum_id, user) ==
    LET found == query_get(int(spectrum_id))
        spectrum == CHOOSE row \in found : TRUE
    IN  IF found = {}
        THEN Refused(error("Could not load spectrum with ID ", NoAttrs))
        ELSE IF get_obj_if_owned_by(spectrum.obj_id, user) = "AccessError"
        THEN Refused(raised("AccessError"))
        ELSE Refused(success(spectrum))

\* for k in data: setattr(spectrum, k, data[k])
setattrs(spectrum, data) ==
    [k \in DOMAIN spectrum |-> IF k \in DOMAIN data THEN data[k] ELSE spectrum[k]]

\* A variant of SpectrumHandler.put that sets the attributes from the request
\* body before it validates it.
SpectrumHandler_put_unvalidated(spectrum_id, user, json) ==
    LET found == query_get(int(spectrum_id))
        spectrum == CHOOSE row \in found : TRUE
        changed == setattrs(spectrum, json)
    IN  IF found = {}
        THEN Refused(raised("AttributeError"))
        ELSE IF get_obj_if_owned_by(spectrum.obj_id, user) = "AccessError"
        THEN Refused(raised("AccessError"))
        ELSE IF ~SpectrumPost_load(json, TRUE).ok
        THEN Handled(error("Invalid/missing parameters: ", SpectrumPost_load(json, TRUE).messages),
                     (spectra \ {spectrum}) \cup {changed}, spectrum_seq, FALSE, <<>>)
        ELSE Handled(success(NoAttrs), (spectra \ {spectrum}) \cup {changed},
                     spectrum_seq, TRUE, <<REFRESH_SOURCE(changed.obj_id)>>)

\* SpectrumHandler.put: spectrum.obj_id raises AttributeError when there is no
\* such row.
SpectrumHandler_put(spectrum_id, user, json) ==
    LET found == query_get(int(spectrum_id))
        spectrum == CHOOSE row \in found : TRUE
        loaded == SpectrumPost_load(json, TRUE)
        changed == setattrs(spectrum, loaded.data)
    IN  IF found = {}
        THEN Refused(raised("AttributeError"))
        ELSE IF get_obj_if_owned_by(spectrum.obj_id, user) = "AccessError"
        THEN Refused(raised("AccessError"))
        ELSE IF ~loaded.ok
        THEN Refused(error("Invalid/missing parameters: ", loaded.messages))
        ELSE Handled(success(NoAttrs), (spectra \ {spectrum}) \cup {changed},
                     spectrum_seq, TRUE, <<REFRESH_SOURCE(changed.obj_id)>>)

\* A variant of SpectrumHandler.delete that checks the access to the Obj after
\* the row is deleted and the session committed.
SpectrumHandler_delete_check_last(spectrum_id, user) ==
    LET found == query_get(int(spectrum_id))
        spectrum == CHOOSE row \in found : TRUE
    IN  IF found = {}
        THEN Refused(raised("AttributeError"))
        ELSE IF get_obj_if_owned_by(spectrum.obj_id, user) = "AccessError"
        THEN Handled(raised("AccessError"), spectra \ {spectrum}, spectrum_seq, TRUE, <<>>)
        ELSE Handled(success(NoAttrs), spectra \ {spectrum}, spectrum_seq, TRUE,
                     <<REFRESH_SOURCE(spectrum.obj_id)>>)

\* SpectrumHandler.delete
SpectrumHandler_delete(spectrum_id, user) ==
    LET found == query_get(int(spectrum_id))
        spectrum == CHOOSE row \in found : TRUE
    IN  IF found = {}
        THEN Refused(raised("AttributeError"))
        ELSE IF get_obj_if_owned_by(spectrum.obj_id, user) = "AccessError"
        THEN Refused(raised("AccessError"))
        ELSE Handled(success(NoAttrs), spectra \ {spectrum}, spectrum_seq, TRUE,
                     <<REFRESH_SOURCE(spectrum.obj_id)>>)

\* The ascii strings of the requests: their length, and whether they are
\* pure ASCII and hold a table Spectrum.from_ascii can read.
AsciiStrings ==
    { [len |-> 120, chars |-> "ascii", content |-> "table"],
      [len |-> MAX_ASCII_LENGTH, chars |-> "ascii", content |-> "table"],
      [len |-> MAX_ASCII_LENGTH + 1, chars |-> "ascii", content |-> "table"],
      [len |-> 120, chars |-> "ascii", content |-> "garbage"],
      [len |-> 120, chars |-> "unicode", content |-> "table"] }

\* The fields SpectrumAsciiFilePostJSON and SpectrumAsciiFileParseJSON require.
AsciiFilePostRequired == {"ascii", "obj_id", "instrument_id", "observed_at", "filename", "group_ids"}

AsciiFileParseRequired == {"ascii"}

\* Path(filename).name
Path_name(filename) ==
    CASE filename = "spectra/ZTF26abc.txt" -> "ZTF26abc.txt"
      [] filename = "ZTF26abc.txt" -> "ZTF26abc.txt"

\* A variant of the size check that refuses 10,000,000 characters too.
too_long_inclusive(ascii) == ascii.len >= MAX_ASCII_LENGTH

\* len(ascii) > 1e7
too_long(ascii) == ascii.len > MAX_ASCII_LENGTH

\* ASCIIHandler.spec_from_ascii_request: the Spectrum read from the request
\* and the loaded json, or the exception raised.
spec_from_ascii_request(json, required) ==
    LET loaded == schema_load(required, json, FALSE)
        ascii == loaded.data.ascii
        data == [k \in {"obj_id", "instrument_id", "observed_at"} |->
                    IF k \in DOMAIN loaded.data THEN loaded.data[k] ELSE None]
    IN  IF ~loaded.ok
        THEN [exc |-> "ValidationError", arg |-> "Invalid/missing parameters: ",
              messages |-> loaded.messages, spec |-> NoAttrs, json |-> NoAttrs,
              parsed |-> <<>>]
        ELSE IF too_long(ascii)
        THEN [exc |-> "ValueError", arg |-> "File must be smaller than 10,000,000 characters.",
              messages |-> NoAttrs, spec |-> NoAttrs, json |-> NoAttrs, parsed |-> <<>>]
        ELSE IF ascii.chars # "ascii"
        THEN [exc |-> "UnicodeEncodeError", arg |-> "ascii",
              messages |-> NoAttrs, spec |-> NoAttrs, json |-> NoAttrs, parsed |-> <<>>]
        ELSE IF ascii.content # "table"
        THEN [exc |-> "ValueError", arg |-> "Could not parse the file.",
              messages |-> NoAttrs, spec |-> NoAttrs, json |-> NoAttrs,
              parsed |-> <<ascii>>]
        ELSE [exc |-> "none", arg |-> "", messages |-> NoAttrs,
              spec |-> Spectrum(0, data, <<>>, None, ascii),
              json |-> [k \in DOMAIN loaded.data \ {"ascii"} |-> loaded.data[k]],
              parsed |-> <<ascii>>]

\* The groups of the upload: those of group_ids in order, the error at the
\* first id that is no group.
RECURSIVE collect_groups(_, _, _)
collect_groups(group_ids, k, groups) ==
    IF k > Len(group_ids) THEN [ok |-> TRUE, groups |-> groups, bad |-> None]
    ELSE IF group_ids[k] \notin GroupIds
    THEN [ok |-> FALSE, groups |-> groups, bad |-> group_ids[k]]
    ELSE collect_groups(group_ids, k + 1, Append(groups, group_ids[k]))

\* "always add the single user group": appended unless the list has it.
add_single_user_group(groups, sug) ==
    IF sug # None /\ sug \notin Range(groups) THEN Append(groups, sug) ELSE groups

\* SpectrumASCIIFileHandler.post
SpectrumASCIIFileHandler_post(json0, user) ==
    LET read == spec_from_ascii_request(json0, AsciiFilePostRequired)
        json == read.json
        obj == get_obj_if_owned_by(json.obj_id, user)
        collected == collect_groups(json.group_ids, 1, <<>>)
        groups == add_single_user_group(collected.groups, single_user_group(user))
        spec == [read.spec EXCEPT !.id = spectrum_seq,
                                  !.original_file_filename = Path_name(json.filename),
                                  !.groups = groups]
        done ==
            IF read.exc # "none"
            THEN Refused(error("Error parsing spectrum: " \o read.arg, read.messages))
            ELSE IF obj = "AccessError"
            THEN Refused(raised("AccessError"))
            ELSE IF obj = None
            THEN Refused(raised("ValidationError: Invalid Obj id."))
            ELSE IF json.instrument_id \notin Instruments
            THEN Refused(raised("ValidationError: Invalid instrument id."))
            ELSE IF ~collected.ok
            THEN Refused(error("Invalid group id: " \o collected.bad \o ".", NoAttrs))
            ELSE Handled(success([id |-> spec.id]), spectra \cup {spec},
                         spectrum_seq + 1, TRUE, <<REFRESH_SOURCE(spec.obj_id)>>)
    IN  [done EXCEPT !.parsed = read.parsed]

\* SpectrumASCIIFileParser.post
SpectrumASCIIFileParser_post(json0) ==
    LET read == spec_from_ascii_request(json0, AsciiFileParseRequired)
        done == IF read.exc # "none"
                THEN Refused(raised(read.exc \o ": " \o read.arg))
                ELSE Refused(success(read.spec))
    IN  [done EXCEPT !.parsed = read.parsed]

\* The request bodies of SpectrumHandler.post.
GoodPost ==
    [obj_id |-> "ZTF26abc", instrument_id |-> "1", observed_at |-> "2026-01-01",
     wavelengths |-> "[4000, 5000]", fluxes |-> "[1.0, 2.0]", group_ids |-> AllGroups]

Without(json, key) == [k \in DOMAIN json \ {key} |-> json[k]]

PostBodies ==
    { GoodPost,
      [GoodPost EXCEPT !.group_ids = GroupList(<<"g1", "g9">>)],
      Without(GoodPost, "fluxes"),
      [GoodPost EXCEPT !.observed_at = "not a date"],
      [GoodPost EXCEPT !.group_ids = NotGroupIds],
      [GoodPost EXCEPT !.instrument_id = "99"] }

\* The request bodies of SpectrumHandler.put.
PutBodies ==
    { [observed_at |-> "2026-02-02"],
      [observed_at |-> "not a date"],
      [obj_id |-> "ZTF26abc", observed_at |-> "not a date"] }

\* The request bodies of the ASCII endpoints.
GoodAscii ==
    [ascii |-> [len |-> 120, chars |-> "ascii", content |-> "table"],
     obj_id |-> "ZTF26abc", instrument_id |-> "1", observed_at |-> "2026-01-01",
     filename |-> "spectra/ZTF26abc.txt", group_ids |-> <<"g1">>]

AsciiFileBodies ==
    { [GoodAscii EXCEPT !.ascii = a] : a \in AsciiStrings } \cup
    { Without(GoodAscii, "ascii"),
      [GoodAscii EXCEPT !.obj_id = "ZTF00none"],
      [GoodAscii EXCEPT !.instrument_id = "99"],
      [GoodAscii EXCEPT !.group_ids = <<"g1", "g9">>],
      [GoodAscii EXCEPT !.filename = "ZTF26abc.txt", !.group_ids = <<"alice-group">>],
      [GoodAscii EXCEPT !.group_ids = <<"alice-group", "alice-group">>] }

AsciiParseBodies ==
    { [ascii |-> a] : a \in AsciiStrings } \cup
    { NoAttrs, [ascii |-> GoodAscii.ascii, observed_at |-> "not a date"] }

\* No request was handled yet.
NoRequest ==
    [op |-> "none", user |-> None, path |-> None, json |-> NoAttrs,
     response |-> [kind |-> "none", text |-> "", messages |-> NoAttrs, data |-> NoAttrs],
     committed |-> FALSE, pushed |-> <<>>, parsed |-> <<>>, before |-> {}]

InitSpectrum ==
    /\ spectra = {}
    /\ spectrum_seq = 1
    /\ http = NoRequest

\* The handler ran: the session and the response it left.
Respond(op, user, path, json, f) ==
    /\ f.seq <= MaxSpectra + 1
    /\ spectra' = f.spectra
    /\ spectrum_seq' = f.seq
    /\ http' = [op |-> op, user |-> user, path |-> path, json |-> json,
                response |-> f.response, committed |-> f.committed,
                pushed |-> f.pushed, parsed |-> f.parsed, before |-> spectra]
    /\ UNCHANGED notSpectrum

SpectrumPost ==
    \E json \in PostBodies, user \in Callers :
        \E f \in {SpectrumHandler_post(json)} :
            Respond("SpectrumHandler.post", user, None, json, f)

SpectrumGet ==
    \E spectrum_id \in PathIds, user \in Callers :
        \E f \in {SpectrumHandler_get(spectrum_id, user)} :
            Respond("SpectrumHandler.get", user, spectrum_id, NoAttrs, f)

SpectrumPut ==
    \E spectrum_id \in PathIds, user \in Callers, json \in PutBodies :
        \E f \in {SpectrumHandler_put(spectrum_id, user, json)} :
            Respond("SpectrumHandler.put", user, spectrum_id, json, f)

SpectrumDelete ==
    \E spectrum_id \in PathIds, user \in Callers :
        \E f \in {SpectrumHandler_delete(spectrum_id, user)} :
            Respond("SpectrumHandler.delete", user, spectrum_id, NoAttrs, f)

AsciiFilePost ==
    \E json \in AsciiFileBodies, user \in Callers :
        \E f \in {SpectrumASCIIFileHandler_post(json, user)} :
            Respond("SpectrumASCIIFileHandler.post", user, None, json, f)

AsciiParserPost ==
    \E json \in AsciiParseBodies, user \in Callers :
        \E f \in {SpectrumASCIIFileParser_post(json)} :
            Respond("SpectrumASCIIFileParser.post", user, None, json, f)

NextSpectrum ==
    \/ SpectrumPost
    \/ SpectrumGet
    \/ SpectrumPut
    \/ SpectrumDelete
    \/ AsciiFilePost
    \/ AsciiParserPost

\* The handler of the last request ended in an error response and left the
\* session as it was.
RefusedWithError ==
    /\ http.response.kind = "error"
    /\ spectra = http.before
    /\ ~http.committed
    /\ http.pushed = <<>>

\* The put of the last request reached SpectrumPost.load: its spectrum was
\* there and the user had access to its Obj.
PutValidated ==
    /\ http.op = "SpectrumHandler.put"
    /\ \E row \in http.before :
          /\ row.id = int(http.path)
          /\ get_obj_if_owned_by(row.obj_id, http.user) = "obj"

AsciiValidationFailure ==
    LET required == IF http.op = "SpectrumASCIIFileHandler.post"
                    THEN AsciiFilePostRequired ELSE AsciiFileParseRequired
        json == http.json
    IN  /\ http.op \in {"SpectrumASCIIFileHandler.post", "SpectrumASCIIFileParser.post"}
        /\ \/ ~schema_load(required, json, FALSE).ok
           \/ json.ascii.len > MAX_ASCII_LENGTH
           \/ json.ascii.chars # "ascii"
           \/ json.ascii.content # "table"
           \/ /\ http.op = "SpectrumASCIIFileHandler.post"
              /\ \/ json.obj_id \notin Objs
                 \/ json.instrument_id \notin Instruments
                 \/ Range(json.group_ids) \ GroupIds # {}

\* C9: a validation failure of an ASCII spectrum endpoint is an error
\* response, never an exception that leaves the handler.
C9_AsciiFailureIsErrorResponse ==
    AsciiValidationFailure => http.response.kind = "error"

\* How often the group is in the list.
Occurrences(groups, group) ==
    Cardinality({i \in DOMAIN groups : groups[i] = group})

\* The last request was a SpectrumASCIIFileHandler.post that reached the loop
\* over group_ids: the spectrum was read, the user has access to its Obj and
\* its instrument exists.
AsciiFileGroupsReached ==
    /\ http.op = "SpectrumASCIIFileHandler.post"
    /\ spec_from_ascii_request(http.json, AsciiFilePostRequired).exc = "none"
    /\ get_obj_if_owned_by(http.json.obj_id, http.user) = "obj"
    /\ http.json.instrument_id \in Instruments

\* The spectrum the last request stored.
StoredByRequest == {row \in spectra \ http.before : row.id = http.response.data.id}

AsciiLengthChecked ==
    /\ http.op \in {"SpectrumASCIIFileHandler.post", "SpectrumASCIIFileParser.post"}
    /\ schema_load(IF http.op = "SpectrumASCIIFileHandler.post"
                   THEN AsciiFilePostRequired ELSE AsciiFileParseRequired,
                   http.json, FALSE).ok

\* The last request ended with the ValueError of the size check: it left
\* SpectrumASCIIFileParser.post, SpectrumASCIIFileHandler.post answered with
\* its message.
RaisedTooLong ==
    IF http.op = "SpectrumASCIIFileParser.post"
    THEN /\ http.response.kind = "exception"
         /\ http.response.text = "ValueError: File must be smaller than 10,000,000 characters."
    ELSE /\ http.response.kind = "error"
         /\ http.response.text =
               "Error parsing spectrum: File must be smaller than 10,000,000 characters."

\* C19: spec_from_ascii_request gives no ascii string of more than 10,000,000
\* characters to Spectrum.from_ascii: for a longer one it raises the
\* ValueError 'File must be smaller than 10,000,000 characters.' and
\* Spectrum.from_ascii is not called; a string of 10,000,000 characters or
\* fewer that encodes as ASCII is given to Spectrum.from_ascii.
C19_AsciiSizeLimit ==
    AsciiLengthChecked =>
        /\ \A i \in DOMAIN http.parsed : http.parsed[i].len <= MAX_ASCII_LENGTH
        /\ http.json.ascii.len > MAX_ASCII_LENGTH
              => (http.parsed = <<>> /\ RaisedTooLong)
        /\ (http.json.ascii.len <= MAX_ASCII_LENGTH /\ http.json.ascii.chars = "ascii")
              => http.parsed = <<http.json.ascii>>

C19_Witness ==
    /\ AsciiLengthChecked
    /\ http.json.ascii.len = MAX_ASCII_LENGTH
    /\ http.parsed = <<http.json.ascii>>
    /\ http.response.kind = "success"

\* The last request was a get, put or delete of a spectrum that was there,
\* by a user without access to the spectrum's Obj.
WithoutAccessToObj ==
    /\ http.op \in {"SpectrumHandler.get", "SpectrumHandler.put", "SpectrumHandler.delete"}
    /\ \E row \in http.before :
          /\ row.id = int(http.path)
          /\ get_obj_if_owned_by(row.obj_id, http.user) = "AccessError"

\* C27: SpectrumHandler.get, put and delete check the access to the
\* spectrum's Obj before they return, change or delete the spectrum: for a
\* user without access to that Obj the handler ends in the AccessError of the
\* check, the response carries no spectrum, no row is changed or deleted,
\* nothing is committed and nothing is pushed.
C27_OwnershipChecked ==
    WithoutAccessToObj =>
        /\ http.response.kind = "exception"
        /\ http.response.text = "AccessError"
        /\ http.response.data = NoAttrs
        /\ spectra = http.before
        /\ ~http.committed
        /\ http.pushed = <<>>

\* A user without access asked to delete a spectrum that is still there.
C27_Witness ==
    /\ WithoutAccessToObj
    /\ http.op = "SpectrumHandler.delete"
    /\ \E row \in spectra : row.id = int(http.path)

(***************************************************************************)
(* handlers/api/summary_query.py: the summary search                       *)
(***************************************************************************)
\* A JSON number or list that may be null: Null is None, Some(v) the value v.
Null == <<>>

Some(v) == <<v>>

\* A global name the module never assigned (its use raises NameError).
Undefined == "<undefined>"

\* The module globals after import: a complete pinecone configuration whose
\* index exists; one whose index is missing; one without a global OpenAI
\* key; the test database, where USE_PINECONE is set and no client is made.
SummaryConfigs ==
    { [USE_PINECONE |-> TRUE, pinecone_client |-> "pinecone",
       summarize_embedding_index_name |-> "summaries", openai_api_key |-> "sk-global"],
      [USE_PINECONE |-> FALSE, pinecone_client |-> "pinecone",
       summarize_embedding_index_name |-> "summaries", openai_api_key |-> "sk-global"],
      [USE_PINECONE |-> TRUE, pinecone_client |-> "pinecone",
       summarize_embedding_index_name |-> "summaries", openai_api_key |-> None],
      [USE_PINECONE |-> TRUE, pinecone_client |-> None,
       summarize_embedding_index_name |-> Undefined, openai_api_key |-> "TEST_KEY"] }

\* The user row of the caller: not found, without an active OpenAI
\* preference, or with one whose "apikey" entry is a string or a dict.
SummaryUsers ==
    { [found |-> FALSE, active |-> FALSE, apikey |-> "str", value |-> None],
      [found |-> TRUE, active |-> FALSE, apikey |-> "str", value |-> "sk-user"],
      [found |-> TRUE, active |-> TRUE, apikey |-> "str", value |-> "sk-user"],
      [found |-> TRUE, active |-> TRUE, apikey |-> "dict", value |-> "sk-user"] }

\* The answers of the embedding service and of the index.
FullMatch(id) == [id |-> id, score |-> "0.9", metadata |-> "summary of " \o id]

IndexAnswers ==
    { [embed |-> "vector", index |-> "matches",
       matches |-> << FullMatch("ZTF1"), [id |-> "ZTF2", metadata |-> "no score"],
                      FullMatch("ZTF3") >>],
      [embed |-> "vector", index |-> "matches", matches |-> <<>>],
      [embed |-> "vector", index |-> "no matches key", matches |-> <<>>],
      [embed |-> "vector", index |-> "error", matches |-> <<>>],
      [embed |-> "error", index |-> "matches", matches |-> <<FullMatch("ZTF1")>>] }

\* index.query(top_k=..., vector=... or id=..., namespace=..., filter=...)
IndexQuery(top_k, by, arg, namespace, filter) ==
    [top_k |-> top_k, by |-> by, arg |-> arg, namespace |-> namespace, filter |-> filter]

\* The matches of the results that have id, score and metadata, in order.
RECURSIVE collect_sources(_)
collect_sources(matches) ==
    IF matches = <<>> THEN <<>>
    ELSE LET res == Head(matches)
         IN  (IF {"id", "score", "metadata"} \subseteq DOMAIN res
              THEN << [id |-> res.id, score |-> res.score, metadata |-> res.metadata] >>
              ELSE <<>>) \o collect_sources(Tail(matches))

\* What search_sources did: the exception it raised or the sources it
\* returned, the embedding requests and the index queries it made.
Searched(exc, sources, embeds, queries) ==
    [exc |-> exc, sources |-> sources, embeds |-> embeds, queries |-> queries]

\* A variant of search_sources that looks at openai_api_key only after the
\* embedding request.
search_sources_late_key_check(client, query, k, filter, index_name, namespace, openai_api_key, answer) ==
    LET embeds == << [query |-> query, openai_api_key |-> openai_api_key] >>
        queries == << IndexQuery(k, "vector", query, namespace, filter) >>
    IN  IF client = None
        THEN Searched("pinecone_client must be provided", <<>>, <<>>, <<>>)
        ELSE IF index_name = None
        THEN Searched("index_name must be provided", <<>>, <<>>, <<>>)
        ELSE IF openai_api_key = None
        THEN Searched("openai_api_key must be provided", <<>>, embeds, <<>>)
        ELSE IF answer.embed = "error"
        THEN Searched("embedding request failed", <<>>, embeds, <<>>)
        ELSE IF answer.index # "matches"
        THEN Searched("index query failed", <<>>, embeds, queries)
        ELSE Searched("none", collect_sources(answer.matches), embeds, queries)

\* search_sources(client, query, k, filter, index_name, namespace,
\* openai_api_key), with the answer the services give.
search_sources(client, query, k, filter, index_name, namespace, openai_api_key, answer) ==
    LET embeds == << [query |-> query, openai_api_key |-> openai_api_key] >>
        queries == << IndexQuery(k, "vector", query, namespace, filter) >>
    IN  IF client = None
        THEN Searched("pinecone_client must be provided", <<>>, <<>>, <<>>)
        ELSE IF index_name = None
        THEN Searched("index_name must be provided", <<>>, <<>>, <<>>)
        ELSE IF openai_api_key = None
        THEN Searched("openai_api_key must be provided", <<>>, <<>>, <<>>)
        ELSE IF answer.embed = "error"
        THEN Searched("embedding request failed", <<>>, embeds, <<>>)
        ELSE IF answer.index = "error"
        THEN Searched("index query failed", <<>>, embeds, queries)
        ELSE IF answer.index = "no matches key"
        THEN Searched("'matches'", <<>>, embeds, queries)
        ELSE Searched("none", collect_sources(answer.matches), embeds, queries)

\* The metadata filters.
EmptyFilter == [op |-> "{}", field |-> None, value |-> <<>>, args |-> <<>>]

Gte(z) == [op |-> "$gte", field |-> "redshift", value |-> <<z>>, args |-> <<>>]

Lte(z) == [op |-> "$lte", field |-> "redshift", value |-> <<z>>, args |-> <<>>]

In(types) == [op |-> "$in", field |-> "class", value |-> types, args |-> <<>>]

And(filters) == [op |-> "$and", field |-> None, value |-> <<>>, args |-> filters]

\* A variant of the filter construction that drops the redshift filter when
\* there is a class filter.
construct_filter_class_only(z_min, z_max, classification_types) ==
    IF classification_types \notin {Null, Some(<<>>)}
    THEN In(classification_types[1])
    ELSE IF z_min # Null /\ z_max = Null THEN Gte(z_min[1])
    ELSE IF z_min = Null /\ z_max # Null THEN Lte(z_max[1])
    ELSE IF z_min # Null /\ z_max # Null THEN And(<<Gte(z_min[1]), Lte(z_max[1])>>)
    ELSE EmptyFilter

\* "construct the filter": z_filt, class_filt and their combination; None is
\* EmptyFilter until the last step.
construct_filter(z_min, z_max, classification_types) ==
    LET z_filt == IF z_min # Null /\ z_max = Null THEN Gte(z_min[1])
                  ELSE IF z_min = Null /\ z_max # Null THEN Lte(z_max[1])
                  ELSE IF z_min # Null /\ z_max # Null
                  THEN And(<<Gte(z_min[1]), Lte(z_max[1])>>)
                  ELSE EmptyFilter
        class_filt == IF classification_types \notin {Null, Some(<<>>)}
                      THEN In(classification_types[1])
                      ELSE EmptyFilter
    IN  IF class_filt # EmptyFilter /\ z_filt # EmptyFilter
        THEN And(<<class_filt, z_filt>>)
        ELSE IF class_filt # EmptyFilter THEN class_filt
        ELSE IF z_filt # EmptyFilter THEN z_filt
        ELSE EmptyFilter

\* data.get(key) and data.get(key, default)
data_get(data, key, default) == IF key \in DOMAIN data THEN data[key] ELSE default

\* What the handler did: its response, the embedding requests and the index
\* queries made.
Answered(response, embeds, queries) ==
    [response |-> response, embeds |-> embeds, queries |-> queries]

Quiet(response) == Answered(response, <<>>, <<>>)

\* k = data.get("k", 5)
get_k(data) == data_get(data, "k", 5)

\* A variant of the range check that lets k = 0 through.
k_out_of_range_negative(k) == k < 0 \/ k > 100

\* k < 1 or k > 100
k_out_of_range(k) == k < 1 \/ k > 100

\* The search of the handler's last step: by the query string through
\* search_sources, or by objID through the index.
summary_search(config, user_openai_key, search_by_string, query, objID, k, filt, answer) ==
    LET index_name == config.summarize_embedding_index_name
        found == search_sources(config.pinecone_client, query, k, filt,
                                index_name, "", user_openai_key, answer)
        queries == << IndexQuery(k, "id", objID, None, filt) >>
    IN  IF search_by_string
        THEN IF index_name = Undefined
             THEN Quiet(error("Could not search sources: name 'summarize_embedding_index_name' is not defined", NoAttrs))
             ELSE IF found.exc # "none"
             THEN Answered(error("Could not search sources: " \o found.exc, NoAttrs),
                           found.embeds, found.queries)
             ELSE Answered(success(found.sources), found.embeds, found.queries)
        ELSE IF config.pinecone_client = None
             THEN Quiet(error("Could not query index: 'NoneType' object has no attribute 'Index'", NoAttrs))
             ELSE IF answer.index = "error"
             THEN Answered(error("Could not query index: index query failed", NoAttrs),
                           <<>>, queries)
             ELSE IF answer.index = "no matches key"
             THEN Answered(success(<<>>), <<>>, queries)
             ELSE Answered(success(answer.matches), <<>>, queries)

\* The part of SummaryQueryHandler.post after the OpenAI key is found.
summary_query(config, user_openai_key, data, answer) ==
    LET query == data_get(data, "q", None)
        objID == data_get(data, "objID", None)
        search_by_string == query \notin {None, ""}
        k == get_k(data)
        z_min == data_get(data, "z_min", Null)
        z_max == data_get(data, "z_max", Null)
        classification_types == data_get(data, "classificationTypes", Null)
        filt == construct_filter(z_min, z_max, classification_types)
    IN  IF query \in {None, ""} /\ objID \in {None, ""}
        THEN Quiet(error("Missing one of the required: \"q\" or \"objID\"", NoAttrs))
        ELSE IF query # None /\ objID # None
        THEN Quiet(error("Cannot specify both \"q\" and \"objID\"", NoAttrs))
        ELSE IF k_out_of_range(k)
        THEN Quiet(error("k must be 1<=k<=100", NoAttrs))
        ELSE IF z_min # Null /\ z_max # Null /\ z_min[1] > z_max[1]
        THEN Quiet(error("z_min must be <= z_max", NoAttrs))
        ELSE summary_search(config, user_openai_key, search_by_string, query, objID,
                            k, filt, answer)

\* SummaryQueryHandler.post
SummaryQueryHandler_post(config, user, data, answer) ==
    IF ~config.USE_PINECONE
    THEN Quiet(error("No valid pinecone configuration found. Please check your config file.", NoAttrs))
    ELSE IF config.openai_api_key \notin {None, ""}
    THEN summary_query(config, config.openai_api_key, data, answer)
    ELSE IF ~user.found
    THEN Quiet(error("No global OpenAI key found and cannot find user.", NoAttrs))
    ELSE IF ~user.active
    THEN Quiet(error("No OpenAI API key found.", NoAttrs))
    ELSE IF user.apikey # "dict"
    THEN Quiet(raised("TypeError"))
    ELSE summary_query(config, user.value, data, answer)

\* The request bodies: each field absent or one of a few values.
Optional(key, values) == {NoAttrs} \cup { [k \in {key} |-> v] : v \in values }

Merge(f, g) == [k \in DOMAIN f \cup DOMAIN g |-> IF k \in DOMAIN f THEN f[k] ELSE g[k]]

SummaryBodies ==
    { Merge(q, Merge(o, Merge(k, Merge(lo, Merge(hi, ct))))) :
        q \in Optional("q", {"", "sources in an NGC galaxy"}),
        o \in Optional("objID", {"", "ZTF26abc"}),
        k \in Optional("k", {0, 1, 100, 101}),
        lo \in Optional("z_min", {Some(0), Some(2)}),
        hi \in Optional("z_max", {Some(0), Some(2)}),
        ct \in Optional("classificationTypes", {Some(<<>>), Some(<<"SN Ia", "AGN">>)}) }

NoQuery ==
    [op |-> "none", data |-> NoAttrs, answer |-> CHOOSE a \in IndexAnswers : a.index = "error",
     response |-> [kind |-> "none", text |-> "", messages |-> NoAttrs, data |-> NoAttrs],
     embeds |-> <<>>, queries |-> <<>>]

InitSummary ==
    /\ sq_config \in SummaryConfigs
    /\ sq_user \in SummaryUsers
    /\ sq = NoQuery

\* The summary search is not used.
IdleSummary ==
    /\ sq_config = CHOOSE c \in SummaryConfigs : ~c.USE_PINECONE
    /\ sq_user = CHOOSE u \in SummaryUsers : ~u.found
    /\ sq = NoQuery

\* One request to the handler; the handler keeps nothing from one request to
\* the next, so one request is followed from each configuration.
SummaryQueryPost ==
    /\ sq.op = "none"
    /\ \E data \in SummaryBodies, answer \in IndexAnswers :
          \E f \in {SummaryQueryHandler_post(sq_config, sq_user, data, answer)} :
             /\ sq' = [op |-> "post", data |-> data, answer |-> answer,
                       response |-> f.response, embeds |-> f.embeds,
                       queries |-> f.queries]
             /\ UNCHANGED <<sq_config, sq_user, notSummary>>

NextSummary == SummaryQueryPost

\* The request got past the configuration and the OpenAI key.
KeyFound ==
    /\ sq.op = "post"
    /\ sq_config.USE_PINECONE
    /\ \/ sq_config.openai_api_key \notin {None, ""}
       \/ sq_user.found /\ sq_user.active /\ sq_user.apikey = "dict"

\* The request names what to search by: q or objID, not both.
OneSearchKey ==
    LET query == data_get(sq.data, "q", None)
        objID == data_get(sq.data, "objID", None)
    IN  /\ ~(query \in {None, ""} /\ objID \in {None, ""})
        /\ ~(query # None /\ objID # None)

\* C12: a request with a non-empty q and an objID is answered as the same
\* request without the objID is: by the search on q.
C12_ObjIDIgnoredWithQ ==
    (/\ sq.op = "post"
     /\ data_get(sq.data, "q", None) \notin {None, ""}
     /\ "objID" \in DOMAIN sq.data)
        => Answered(sq.response, sq.embeds, sq.queries)
              = SummaryQueryHandler_post(sq_config, sq_user, Without(sq.data, "objID"), sq.answer)

\* C13: the index is queried only with 1 <= top_k <= 100, and with top_k = 5
\* when the request has no k; a request with k < 1 or k > 100 does not
\* succeed and makes no embedding request and no index query, and it ends in
\* the error 'k must be 1<=k<=100' when it got as far as the check of k.
C13_KRange ==
    /\ \A i \in DOMAIN sq.queries :
          /\ sq.queries[i].top_k >= 1
          /\ sq.queries[i].top_k <= 100
          /\ "k" \notin DOMAIN sq.data => sq.queries[i].top_k = 5
          /\ "k" \in DOMAIN sq.data => sq.queries[i].top_k = sq.data.k
    /\ (sq.op = "post" /\ "k" \in DOMAIN sq.data /\ (sq.data.k < 1 \/ sq.data.k > 100))
          => /\ sq.response.kind # "success"
             /\ sq.embeds = <<>>
             /\ sq.queries = <<>>
             /\ (KeyFound /\ OneSearchKey)
                   => /\ sq.response.kind = "error"
                      /\ sq.response.text = "k must be 1<=k<=100"

\* A request with k = 101 was refused for its k.
C13_Witness ==
    /\ sq.op = "post"
    /\ "k" \in DOMAIN sq.data
    /\ sq.data.k = 101
    /\ sq.response.text = "k must be 1<=k<=100"
    /\ sq.queries = <<>>

\* The conditions of a filter that are no conjunction.
RECURSIVE Leaves(_)
RECURSIVE LeavesOfAll(_)
Leaves(filter) ==
    IF filter.op = "$and" THEN LeavesOfAll(filter.args)
    ELSE IF filter = EmptyFilter THEN {}
    ELSE {filter}

LeavesOfAll(filters) ==
    IF filters = <<>> THEN {}
    ELSE Leaves(Head(filters)) \cup LeavesOfAll(Tail(filters))

\* The conditions the request asks for.
RequestedConditions ==
    LET z_min == data_get(sq.data, "z_min", Null)
        z_max == data_get(sq.data, "z_max", Null)
        types == data_get(sq.data, "classificationTypes", Null)
    IN  (IF z_min # Null THEN {Gte(z_min[1])} ELSE {})
        \cup (IF z_max # Null THEN {Lte(z_max[1])} ELSE {})
        \cup (IF types \notin {Null, Some(<<>>)} THEN {In(types[1])} ELSE {})

\* C14: the filter of every index query holds the lower redshift bound iff
\* z_min is given, the upper bound iff z_max is given, the class restriction
\* iff classificationTypes is given and not empty, and nothing else; it is the
\* empty dict when none is asked for, the condition itself when one is, and an
\* $and when several are.  A request with z_min > z_max does not succeed and
\* queries nothing and, when it got as far as the check, ends in the error
\* 'z_min must be <= z_max';
\* a request with z_min = z_max is not refused for its redshifts.
C14_MetadataFilter ==
    LET z_min == data_get(sq.data, "z_min", Null)
        z_max == data_get(sq.data, "z_max", Null)
    IN  /\ \A i \in DOMAIN sq.queries :
              LET filter == sq.queries[i].filter
              IN  /\ Leaves(filter) = RequestedConditions
                  /\ RequestedConditions = {} => filter = EmptyFilter
                  /\ Cardinality(RequestedConditions) = 1 => filter \in RequestedConditions
                  /\ Cardinality(RequestedConditions) > 1 => filter.op = "$and"
        /\ (sq.op = "post" /\ z_min # Null /\ z_max # Null)
              => /\ z_min[1] > z_max[1]
                    => /\ sq.response.kind # "success"
                       /\ sq.queries = <<>>
                       /\ sq.embeds = <<>>
                       /\ (KeyFound /\ OneSearchKey /\ ~k_out_of_range(get_k(sq.data)))
                             => /\ sq.response.kind = "error"
                                /\ sq.response.text = "z_min must be <= z_max"
                 /\ z_min[1] <= z_max[1] => sq.response.text # "z_min must be <= z_max"

\* The index was queried with a class restriction and both redshift bounds,
\* the bounds being equal.
C14_Witness ==
    /\ Len(sq.queries) = 1
    /\ sq.queries[1].filter =
          And(<< In(<<"SN Ia", "AGN">>), And(<< Gte(2), Lte(2) >>) >>)
    /\ sq.response.kind = "success"

\* The arguments of the direct calls of search_sources.
SearchArguments ==
    [client : {None, "pinecone"}, query : {"sources in an NGC galaxy"},
     k : {1, 4, 100}, filter : {EmptyFilter, Gte(0)},
     index_name : {None, "summaries"}, namespace : {None, ""},
     openai_api_key : {None, "sk-global"}]

\* The answers of the services to the direct calls: those above, and matches
\* that carry a field more or lack the id or the metadata.
SearchAnswers ==
    IndexAnswers \cup
    { [embed |-> "vector", index |-> "matches",
       matches |-> << [score |-> "0.8", metadata |-> "no id"],
                      [id |-> "ZTF4", score |-> "0.7", metadata |-> "summary of ZTF4",
                       values |-> "vector"],
                      [id |-> "ZTF5", score |-> "0.6"],
                      FullMatch("ZTF1") >>] }

\* One call of search_sources.
SearchSources ==
    /\ sq.op = "none"
    /\ \E a \in SearchArguments, answer \in SearchAnswers :
          \E f \in {search_sources(a.client, a.query, a.k, a.filter, a.index_name,
                                   a.namespace, a.openai_api_key, answer)} :
             /\ sq' = [op |-> "search_sources", data |-> a, answer |-> answer,
                       response |-> IF f.exc # "none" THEN raised(f.exc)
                                    ELSE success(f.sources),
                       embeds |-> f.embeds, queries |-> f.queries]
             /\ UNCHANGED <<sq_config, sq_user, notSummary>>

NextSearch == SearchSources

\* The ValueError search_sources raises for the first of client, index_name
\* and openai_api_key that is None.
MustBeProvided(a) ==
    IF a.client = None THEN "pinecone_client must be provided"
    ELSE IF a.index_name = None THEN "index_name must be provided"
    ELSE "openai_api_key must be provided"

\* The matches that have id, score and metadata, in the order of the index,
\* each cut down to these three fields.
CompleteMatches(matches) ==
    LET Complete(res) == {"id", "score", "metadata"} \subseteq DOMAIN res
        kept == SelectSeq(matches, Complete)
    IN  [i \in DOMAIN kept |->
            [id |-> kept[i].id, score |-> kept[i].score, metadata |-> kept[i].metadata]]

\* C21: search_sources raises the ValueError '... must be provided' when
\* client, index_name or openai_api_key is None, with no embedding request and
\* no index query made; otherwise it makes one embedding request and, when
\* the embedding is returned, one index query with top_k = k, and when the
\* index answers with its matches it returns, in their order, the id, score
\* and metadata of every match that has the three, leaving out the others.
C21_SearchSources ==
    sq.op = "search_sources" =>
        LET a == sq.data
            missing == None \in {a.client, a.index_name, a.openai_api_key}
        IN  /\ missing =>
                  /\ sq.response = raised(MustBeProvided(a))
                  /\ sq.embeds = <<>>
                  /\ sq.queries = <<>>
            /\ ~missing =>
                  /\ Len(sq.embeds) = 1
                  /\ sq.embeds[1].query = a.query
                  /\ Len(sq.queries) = (IF sq.answer.embed = "vector" THEN 1 ELSE 0)
                  /\ \A i \in DOMAIN sq.queries :
                        /\ sq.queries[i].top_k = a.k
                        /\ sq.queries[i].filter = a.filter
                        /\ sq.queries[i].namespace = a.namespace
            /\ (~missing /\ sq.answer.embed = "vector" /\ sq.answer.index = "matches")
                  => sq.response = success(CompleteMatches(sq.answer.matches))

C21_Witness ==
    /\ sq.op = "search_sources"
    /\ sq.response.kind = "success"
    /\ Len(sq.queries) = 1
    /\ Len(sq.response.data) = 2
    /\ Len(sq.answer.matches) = 4

(***************************************************************************)
(* The annotations on photometry, as the API tests describe their handler  *)
(***************************************************************************)
\* The most annotations created in the model.
MaxAnnotations == 2

\* The photometry points and the groups they are open to.
PhotometryIds == {1, 2}

PhotometryGroups(photometry_id) ==
    CASE photometry_id = 1 -> {"public_group2"}
      [] photometry_id = 2 -> {"public_group", "public_group2"}

\* The tokens of the tests and the groups of their users.
Tokens == {"annotation_token", "annotation_token_two_groups"}

TokenGroups(token) ==
    CASE token = "annotation_token" -> {"public_group"}
      [] token = "annotation_token_two_groups" -> {"public_group", "public_group2"}

\* The token's user can access the photometry point.
photometry_accessible(token, photometry_id) ==
    /\ photometry_id \in PhotometryIds
    /\ TokenGroups(token) \cap PhotometryGroups(photometry_id) # {}

\* The answer of the API: the HTTP status, the message of a failure, the
\* data or the annotation_id of a success (0: none).
ApiAnswer(status, message, data, annotation_id) ==
    [status |-> status, message |-> message, data |-> data,
     annotation_id |-> annotation_id]

\* What a request did: its answer and the table it left.
ApiDone(answer, table, seq, deleted) ==
    [answer |-> answer, annotations |-> table, seq |-> seq, deleted |-> deleted]

ApiFailed(status, message) ==
    ApiDone(ApiAnswer(status, message, None, 0), annotations, annotation_seq,
            annotations_deleted)

\* A variant of the POST that replaces the annotation of the same origin.
post_annotation_replacing(photometry_id, token, body) ==
    LET row == [id |-> annotation_seq, photometry_id |-> photometry_id,
                origin |-> body.origin, data |-> body.data,
                groups |-> body.group_ids, author |-> token]
        same == {r \in annotations :
                    r.photometry_id = photometry_id /\ r.origin = body.origin}
    IN  IF body.origin = None
        THEN ApiFailed(400, "origin must be specified")
        ELSE IF body.origin = ""
        THEN ApiFailed(400, "Input origin must begin with alphanumeric/underscore")
        ELSE ApiDone(ApiAnswer(200, "", None, row.id), (annotations \ same) \cup {row},
                     annotation_seq + 1, annotations_deleted)

\* POST photometry/{photometry_id}/annotations
post_annotation(photometry_id, token, body) ==
    LET row == [id |-> annotation_seq, photometry_id |-> photometry_id,
                origin |-> body.origin, data |-> body.data,
                groups |-> body.group_ids, author |-> token]
    IN  IF body.origin = None
        THEN ApiFailed(400, "origin must be specified")
        ELSE IF body.origin = ""
        THEN ApiFailed(400, "Input origin must begin with alphanumeric/underscore")
        ELSE IF \E r \in annotations :
                    r.photometry_id = photometry_id /\ r.origin = body.origin
        THEN ApiFailed(500, "duplicate key value violates unique constraint")
        ELSE ApiDone(ApiAnswer(200, "", None, row.id), annotations \cup {row},
                     annotation_seq + 1, annotations_deleted)

\* A variant of the read rule that asks for the annotation's groups only.
annotation_readable_by_group(token, row) ==
    TokenGroups(token) \cap row.groups # {}

\* The token's user belongs to one of the annotation's groups and can access
\* its photometry.
annotation_readable(token, row) ==
    /\ TokenGroups(token) \cap row.groups # {}
    /\ photometry_accessible(token, row.photometry_id)

\* GET photometry/{photometry_id}/annotations/{annotation_id}
get_annotation(annotation_id, token) ==
    LET found == {r \in annotations : r.id = annotation_id /\ annotation_readable(token, r)}
    IN  IF found = {}
        THEN ApiFailed(403, "Could not find any accessible annotations.")
        ELSE ApiDone(ApiAnswer(200, "", (CHOOSE r \in found : TRUE).data, 0),
                     annotations, annotation_seq, annotations_deleted)

\* PUT photometry/{photometry_id}/annotations/{annotation_id} by the author
put_annotation(annotation_id, token, body) ==
    LET row == CHOOSE r \in annotations : r.id = annotation_id
        changed == [row EXCEPT !.data = body.data, !.groups = body.group_ids]
    IN  ApiDone(ApiAnswer(200, "", None, 0), (annotations \ {row}) \cup {changed},
                annotation_seq, annotations_deleted)

\* A variant of the DELETE that does not compare the photometry id of the path.
delete_annotation_any_path(photometry_id, annotation_id, token) ==
    LET row == CHOOSE r \in annotations : r.id = annotation_id
    IN  ApiDone(ApiAnswer(200, "", None, 0), annotations \ {row}, annotation_seq,
                annotations_deleted \cup {annotation_id})

\* DELETE photometry/{photometry_id}/annotations/{annotation_id} by the author
delete_annotation(photometry_id, annotation_id, token) ==
    LET row == CHOOSE r \in annotations : r.id = annotation_id
    IN  IF row.photometry_id # photometry_id
        THEN ApiFailed(400, "Annotation resource ID does not match resource ID given in path")
        ELSE ApiDone(ApiAnswer(200, "", None, 0), annotations \ {row}, annotation_seq,
                     annotations_deleted \cup {annotation_id})

\* The origins of the request bodies (None: no origin).
Origins == {None, "", "kowalski", "IPAC"}

\* The group lists the tests send with each token.
GroupLists(token) ==
    CASE token = "annotation_token" -> {{"public_group"}}
      [] token = "annotation_token_two_groups" ->
            {{"public_group2"}, {"public_group", "public_group2"}}

NoApiRequest ==
    [op |-> "none", token |-> None, photometry_id |-> 0, annotation_id |-> 0,
     origin |-> None, answer |-> ApiAnswer(0, "", None, 0)]

InitAnnotations ==
    /\ annotations = {}
    /\ annotation_seq = 1
    /\ annotations_deleted = {}
    /\ ann_http = NoApiRequest

\* The request was answered.
ApiRespond(op, token, photometry_id, annotation_id, origin, f) ==
    /\ f.seq <= MaxAnnotations + 1
    /\ annotations' = f.annotations
    /\ annotation_seq' = f.seq
    /\ annotations_deleted' = f.deleted
    /\ ann_http' = [op |-> op, token |-> token, photometry_id |-> photometry_id,
                    annotation_id |-> annotation_id, origin |-> origin,
                    answer |-> f.answer]
    /\ UNCHANGED notAnnotations

\* A user who can access the photometry point posts an annotation on it.
AnnotationPost ==
    \E token \in Tokens, photometry_id \in PhotometryIds, origin \in Origins :
        \E group_ids \in GroupLists(token) :
            /\ photometry_accessible(token, photometry_id)
            /\ \E f \in {post_annotation(photometry_id, token,
                                         [origin |-> origin, data |-> "as posted",
                                          group_ids |-> group_ids])} :
                  ApiRespond("POST", token, photometry_id, f.answer.annotation_id,
                             origin, f)

\* A user asks for an annotation that exists or has existed.
AnnotationGet ==
    \E token \in Tokens, annotation_id \in 1..(annotation_seq - 1) :
        \E f \in {get_annotation(annotation_id, token)} :
            ApiRespond("GET", token, 0, annotation_id, None, f)

\* The author of an annotation replaces its data and its group list.
AnnotationPut ==
    \E row \in annotations :
        \E group_ids \in GroupLists(row.author) :
            \E f \in {put_annotation(row.id, row.author,
                                     [data |-> "as updated", group_ids |-> group_ids])} :
                ApiRespond("PUT", row.author, row.photometry_id, row.id, None, f)

\* The author of an annotation deletes it, under its photometry id or the
\* next one.
AnnotationDelete ==
    \E row \in annotations, photometry_id \in PhotometryIds \cup {3} :
        /\ photometry_id \in {row.photometry_id, row.photometry_id + 1}
        /\ \E f \in {delete_annotation(photometry_id, row.id, row.author)} :
              ApiRespond("DELETE", row.author, photometry_id, row.id, None, f)

NextAnnotations ==
    \/ AnnotationPost
    \/ AnnotationGet
    \/ AnnotationPut
    \/ AnnotationDelete

\* The annotations table is not used.
IdleAnnotations == InitAnnotations

\* No two annotations of a photometry point have the same origin.
OneAnnotationPerOrigin ==
    \A r1, r2 \in annotations :
        (r1.photometry_id = r2.photometry_id /\ r1.origin = r2.origin) => r1 = r2

\* A POST with the origin of an annotation the photometry point already has
\* fails with 400 or 500 and the duplicate key message, a POST with no origin
\* or an empty one fails, and both leave the table as it was.
PostRefusesDuplicates ==
    ann_http'.op = "POST" =>
        /\ (\E r \in annotations : /\ r.photometry_id = ann_http'.photometry_id
                                   /\ r.origin = ann_http'.origin)
              => /\ ann_http'.answer.status \in {400, 500}
                 /\ ann_http'.answer.message = "duplicate key value violates unique constraint"
                 /\ annotations' = annotations
        /\ ann_http'.origin \in {None, ""}
              => /\ ann_http'.answer.status \in {400, 401}
                 /\ annotations' = annotations

\* C15: a photometry point never has two annotations of one origin: a POST
\* with the origin of an existing annotation of the point fails (400 or 500,
\* duplicate key) and a POST without an origin or with an empty one fails, and
\* neither changes the annotations there are.
C15_OneAnnotationPerOrigin ==
    []OneAnnotationPerOrigin /\ [][PostRefusesDuplicates]_vars

\* A second POST of origin kowalski on a photometry point was refused.
C15_Witness ==
    /\ ann_http.op = "POST"
    /\ ann_http.origin = "kowalski"
    /\ ann_http.answer.status = 500
    /\ \E r \in annotations : /\ r.photometry_id = ann_http.photometry_id
                              /\ r.origin = "kowalski"
                              /\ r.data = "as posted"

\* C16: a GET of an annotation succeeds iff the token's user belongs to one of
\* the annotation's groups and can access its photometry, and is answered 403
\* otherwise; a GET that succeeds returns the data the annotation has now, so
\* after the author's PUT the new data.
C16_ReadNeedsGroupAndPhotometry ==
    ann_http.op = "GET" =>
        LET rows == {r \in annotations : r.id = ann_http.annotation_id}
            allowed == {r \in rows :
                          /\ TokenGroups(ann_http.token) \cap r.groups # {}
                          /\ TokenGroups(ann_http.token)
                                \cap PhotometryGroups(r.photometry_id) # {}}
        IN  /\ allowed # {} => /\ ann_http.answer.status = 200
                               /\ \A r \in allowed : ann_http.answer.data = r.data
            /\ allowed = {} => ann_http.answer.status = 403

\* The reader got the updated data of an annotation of the other user, whose
\* group list the author had replaced.
C16_Witness ==
    /\ ann_http.op = "GET"
    /\ ann_http.token = "annotation_token"
    /\ ann_http.answer.status = 200
    /\ ann_http.answer.data = "as updated"
    /\ \E r \in annotations : /\ r.id = ann_http.annotation_id
                              /\ r.author = "annotation_token_two_groups"
                              /\ r.groups = {"public_group", "public_group2"}

\* A DELETE under a photometry id that is not the annotation's fails with 400
\* and leaves the annotation; under the annotation's photometry id it
\* succeeds and removes the annotation.
DeleteChecksPath ==
    ann_http'.op = "DELETE" =>
        \A r \in annotations :
            r.id = ann_http'.annotation_id =>
                /\ r.photometry_id # ann_http'.photometry_id
                      => /\ ann_http'.answer.status = 400
                         /\ ann_http'.answer.message =
                               "Annotation resource ID does not match resource ID given in path"
                         /\ r \in annotations'
                /\ r.photometry_id = ann_http'.photometry_id
                      => /\ ann_http'.answer.status = 200
                         /\ annotations' = annotations \ {r}
                         /\ r.id \in annotations_deleted'

\* A deleted annotation is not in the table and a GET of it is answered 403.
DeletedStaysDeleted ==
    /\ \A r \in annotations : r.id \notin annotations_deleted
    /\ (ann_http.op = "GET" /\ ann_http.annotation_id \in annotations_deleted)
          => ann_http.answer.status = 403

\* C17: a DELETE under another photometry id than the annotation's fails with
\* 400 and the annotation stays; a DELETE under its photometry id succeeds,
\* and from then on every GET of the annotation is answered 403.
C17_DeleteByMatchingPath ==
    []DeletedStaysDeleted /\ [][DeleteChecksPath]_vars /\ [][annotations_deleted \subseteq annotations_deleted']_vars

\* The author asked for an annotation they had deleted and got 403.
C17_Witness ==
    /\ ann_http.op = "GET"
    /\ ann_http.annotation_id \in annotations_deleted
    /\ ann_http.answer.status = 403
    /\ TokenGroups(ann_http.token) = {"public_group", "public_group2"}

(***************************************************************************)
(* models/analysis.py: AnalysisMixin.save_data                             *)
(***************************************************************************)
MAX_FILEPATH_LENGTH == 255

\* A string is the sequence of its characters.  LongWord is a run of 250
\* letters kept as one piece, the other pieces longer than one character are
\* the literal parts of the names save_data builds.
LongWord == "a*250"

\* The characters [\w_\-\+] matches: letters, digits, underscore, - and +.
ClassChars == {"a", "7", "_", "-", "+", LongWord}

\* The characters of the _unique_id values.
IdChars == {"a", "7", "_", "-", "+", "/", "\\", ".", "\n"}

\* len(string)
len(string) ==
    LET PieceLen(p) == CASE p = LongWord -> 250
                         [] p = "analysis_data" -> 13
                         [] p = "analysis_" -> 9
                         [] p = "data" -> 4
                         [] p = ".nc" -> 3
                         [] OTHER -> 1
        RECURSIVE Sum(_)
        Sum(k) == IF k = 0 THEN 0 ELSE Sum(k - 1) + PieceLen(string[k])
    IN  Sum(Len(string))

\* RE_NO_SLASHES.match(string) for r'^[\w_\-\+]*$': characters of the class
\* up to the end of the string, or up to a newline that ends the string
\* ($ matches there too).
RE_NO_SLASHES_match(string) ==
    \E k \in 0..Len(string) :
        /\ \A i \in 1..k : string[i] \in ClassChars
        /\ \/ k = Len(string)
           \/ k = Len(string) - 1 /\ string[Len(string)] = "\n"

\* AnalysisMixin.check_path_string(string): the exception it raises.
check_path_string(string) ==
    IF ~RE_NO_SLASHES_match(string) THEN "ValueError: Illegal characters in string"
    ELSE "none"

\* string.replace("\\", "/")
replace_backslashes(string) ==
    [i \in DOMAIN string |-> IF string[i] = "\\" THEN "/" ELSE string[i]]

\* os.path.join(a, b)
os_path_join(a, b) ==
    IF b # <<>> /\ b[1] = "/" THEN b
    ELSE IF a = <<>> \/ a[Len(a)] = "/" THEN a \o b
    ELSE a \o <<"/">> \o b

\* The path without the separators at its end, as the file system names it.
normpath(path) ==
    LET last == CHOOSE k \in 0..Len(path) :
                    /\ k = 0 \/ path[k] # "/"
                    /\ \A i \in (k + 1)..Len(path) : path[i] = "/"
    IN  IF last = 0 /\ path # <<>> THEN <<"/">> ELSE SubSeq(path, 1, last)

\* os.makedirs(path): the directory and the directories above it.
os_makedirs(path) ==
    {normpath(path)} \cup
    {normpath(SubSeq(path, 1, k - 1)) : k \in {i \in 2..Len(path) : path[i] = "/"}}

\* The values of analysis_services.analysis_folder: not set (the default),
\* and a full path.
RootFolders == {<<"analysis_data">>, <<"/", "data">>}

\* The _unique_id values: every string of at most two of the characters, and
\* some longer ones.
UniqueIds ==
    {<<>>} \cup {<<c>> : c \in IdChars} \cup {<<c, d>> : c, d \in IdChars} \cup
    { <<LongWord>>, <<"a", "\n", "\n">>, <<"a", "\n", "7">>, <<".", ".", "/">>,
      <<"a", "/", ".", ".", "/", ".", ".", "/", "a">> }

\* self.filename of an analysis that was never saved.
NoFilename == <<>>

\* f'analysis_{self.id}.nc'
analysis_filename(id) == <<"analysis_", id, ".nc">>

\* AnalysisMixin.save_data: the exception it raises, the directories and the
\* files on the disk and self.filename when it ends.
save_data(self, root_folder) ==
    LET checked == check_path_string(self._unique_id)
        subfolder == replace_backslashes(self._unique_id)
        filename == analysis_filename(self.id)
        path == os_path_join(root_folder, subfolder)
        folders == IF normpath(path) \notin disk_folders
                   THEN disk_folders \cup os_makedirs(path) ELSE disk_folders
        full_name == os_path_join(path, filename)
    IN  IF checked # "none"
        THEN [exc |-> checked, folders |-> disk_folders, files |-> disk_files,
              filename |-> self.filename]
        ELSE IF len(full_name) > MAX_FILEPATH_LENGTH
        THEN [exc |-> "ValueError: Full path to file is longer than 255 characters.",
              folders |-> folders, files |-> disk_files, filename |-> self.filename]
        ELSE [exc |-> "none", folders |-> folders,
              files |-> disk_files \cup {full_name}, filename |-> full_name]

\* save_data was not called yet.
NoSave(root_folder) ==
    [op |-> "none", root_folder |-> root_folder, exc |-> "none",
     before |-> [folders |-> {}, files |-> {}, filename |-> NoFilename]]

\* The disk before the call: nothing, the root folder, or the folder and the
\* file of an analysis saved earlier; the analysis is new or was that one.
InitDisk ==
    \E root_folder \in RootFolders :
        LET earlier == os_path_join(root_folder, <<"a">>)
            saved == os_path_join(earlier, analysis_filename("1"))
        IN  /\ save_call = NoSave(root_folder)
            /\ \/ /\ disk_folders \in {{}, os_makedirs(root_folder)}
                  /\ disk_files = {}
                  /\ analysis_self \in [id : {"1", "2"}, _unique_id : UniqueIds,
                                        filename : {NoFilename}]
               \/ /\ disk_folders = os_makedirs(earlier)
                  /\ disk_files = {saved}
                  /\ analysis_self \in [id : {"1", "2"}, _unique_id : UniqueIds,
                                        filename : {NoFilename, saved}]

\* AnalysisMixin is not used.
IdleDisk ==
    /\ save_call = NoSave(<<"analysis_data">>)
    /\ disk_folders = {}
    /\ disk_files = {}
    /\ analysis_self = [id |-> "1", _unique_id |-> <<"a">>, filename |-> NoFilename]

\* One call of save_data on the analysis.
SaveData ==
    /\ save_call.op = "none"
    /\ \E f \in {save_data(analysis_self, save_call.root_folder)} :
          /\ disk_folders' = f.folders
          /\ disk_files' = f.files
          /\ analysis_self' = [analysis_self EXCEPT !.filename = f.filename]
          /\ save_call' = [save_call EXCEPT
                              !.op = "save_data", !.exc = f.exc,
                              !.before = [folders |-> disk_folders, files |-> disk_files,
                                          filename |-> analysis_self.filename]]
    /\ UNCHANGED notDisk

NextDisk == SaveData

\* The path is beneath the root folder: it starts with the root folder and a
\* separator, and no part of it is "..".
BeneathRoot(path) ==
    LET root == save_call.root_folder
        n == Len(root)
    IN  /\ Len(path) > n + 1
        /\ SubSeq(path, 1, n) = root
        /\ path[n + 1] = "/"
        /\ \A i \in 1..(Len(path) - 1) :
              ~(/\ path[i] = "." /\ path[i + 1] = "."
                /\ (i = 1 \/ path[i - 1] = "/")
                /\ (i + 1 = Len(path) \/ path[i + 2] = "/"))

\* The characters the subfolder name may have: alphanumerics, underscore,
\* + and -.
AllowedInSubfolder(c) == c \in {"a", "7", "_", "+", "-", LongWord}

\* C20: save_data writes only beneath the analysis root folder: every
\* directory it creates is the root folder or beneath it and the file it
\* writes is beneath it; and when _unique_id has a character that is no
\* alphanumeric, underscore, + or - (such as /, \, . or a newline),
\* check_path_string raises ValueError, no directory is created, no file is
\* written and self.filename is as it was.
C20_SaveBeneathRoot ==
    save_call.op = "save_data" =>
        /\ \A d \in disk_folders \ save_call.before.folders :
              d \in os_makedirs(save_call.root_folder) \/ BeneathRoot(d)
        /\ \A f \in disk_files \ save_call.before.files : BeneathRoot(f)
        /\ (\E i \in DOMAIN analysis_self._unique_id :
                ~AllowedInSubfolder(analysis_self._unique_id[i]))
              => /\ save_call.exc = "ValueError: Illegal characters in string"
                 /\ disk_folders = save_call.before.folders
                 /\ disk_files = save_call.before.files
                 /\ analysis_self.filename = save_call.before.filename

(***************************************************************************)
(* Specifications                                                          *)
(***************************************************************************)
\* No call is made on the follow-up request.
IdleLT ==
    /\ request = FollowupRequest("IOO", ImagerPayload(<<"g">>), Altdata)
    /\ transactions = <<>>
    /\ call = NoCall
    /\ trace = <<>>
    /\ flow = <<>>
    /\ lastWrite = [op |-> "none", mode |-> None]

\* The obj_analyses table is not used.
IdleAnalysis ==
    /\ obj_readers = {}
    /\ obj_analyses = {}
    /\ next_id = 1
    /\ access = NoAccess

Init == InitLT /\ IdleAnalysis /\ InitSpectrum /\ IdleSummary /\ IdleAnnotations /\ IdleDisk

\* The LT follow-up API, on one follow-up request.
Spec == Init /\ [][NextLT]_vars

InitSpecAnalysis == IdleLT /\ InitAnalysis /\ InitSpectrum /\ IdleSummary /\ IdleAnnotations /\ IdleDisk

\* The obj_analyses table under its access rules.
SpecAnalysis == InitSpecAnalysis /\ [][NextAnalysis]_vars

InitSpecSpectrum == IdleLT /\ IdleAnalysis /\ InitSpectrum /\ IdleSummary /\ IdleAnnotations /\ IdleDisk

\* The spectrum handlers on the spectra table.
SpecSpectrum == InitSpecSpectrum /\ [][NextSpectrum]_vars

InitSpecSummary == IdleLT /\ IdleAnalysis /\ InitSpectrum /\ InitSummary /\ IdleAnnotations /\ IdleDisk

\* The summary search handler.
SpecSummary == InitSpecSummary /\ [][NextSummary]_vars

\* search_sources, called with arguments of its own.
SpecSearch == InitSpecSpectrum /\ [][NextSearch]_vars

InitSpecAnnotations ==
    IdleLT /\ IdleAnalysis /\ InitSpectrum /\ IdleSummary /\ InitAnnotations /\ IdleDisk

\* The annotations API on the photometry of the tests.
SpecAnnotations == InitSpecAnnotations /\ [][NextAnnotations]_vars

InitSpecDisk ==
    IdleLT /\ IdleAnalysis /\ InitSpectrum /\ IdleSummary /\ IdleAnnotations /\ InitDisk

\* AnalysisMixin.save_data on the analysis folder.
SpecDisk == InitSpecDisk /\ [][NextDisk]_vars

====
